---- MODULE Spec2Model ----
(***************************************************************************)
(* Robo AI Auto Book Generator: the storybook viewer (pagination,          *)
(* navigation, keyboard listener, export), the App that opens it (idea,    *)
(* table of contents, covers, chapters, assemble, history), the            *)
(* generation service as far as it validates responses, and the progress   *)
(* and history the App keeps in localStorage. geminiService.ts holds two   *)
(* versions of the App; the model follows the first (line 417) and has     *)
(* the persistence of the second (line 866) as SpecVariant.                *)
(*                                                                         *)
(* Strings are sequences of one-character strings; indices in the          *)
(* operators named after JavaScript methods are 0-based like theirs.       *)
(* null, undefined and '' are all falsy where the code tests them          *)
(* (`if (frontCoverUrl)`, `frontCoverImage || undefined`); the empty        *)
(* sequence stands for the three.                                          *)
(***************************************************************************)
EXTENDS Integers, Sequences, FiniteSets, TLC

VARIABLES
    \* ---- App (src/services/geminiService.ts, App at line 417)
    title,              \* useState title
    frontCoverImage,    \* useState frontCoverImage
    backCoverImage,     \* useState backCoverImage
    isLoading,          \* useState isLoading
    error,              \* useState error (TRUE when a message is shown)
    showBookViewer,     \* useState showBookViewer
    finalBookContent,   \* useState finalBookContent
    currentBook,        \* useState currentBook (its title)
    bookHistory,        \* useState bookHistory
    assembleCalls,      \* handleAssembleBook calls awaiting assembleBook
    coverCalls,         \* handleGenerateCover calls awaiting generateBookCover
    clock,              \* Date.now()
    appMounted,         \* the App's mount effects have run
    appStep,            \* useState appStep
    subtitle,           \* useState subtitle
    topic,              \* useState topic of the App variant (line 868)
    author,             \* useState author
    description,        \* useState description
    frontCoverPrompt,   \* useState frontCoverPrompt
    backCoverPrompt,    \* useState backCoverPrompt
    chapters,           \* useState chapters
    isRandomizing,      \* useState isRandomizing
    isGeneratingFrontCover,  \* useState isGeneratingFrontCover
    isGeneratingBackCover,   \* useState isGeneratingBackCover
    isGeneratingBothCovers,  \* useState isGeneratingBothCovers
    ideaCalls,          \* handleRandomizeBookSettings calls awaiting the service
    tocCalls,           \* handleGenerateToc calls awaiting the service
    bothCoverCalls,     \* handleGenerateBothCovers calls awaiting Promise.all
    allRuns,            \* handleGenerateAllChapters calls, running or finished
    requests,           \* generateChapterContent requests in flight, in issue order
    continueFromPrevious,    \* useState continueFromPrevious
    localStorage,       \* the two blobs of window.localStorage
    \* ---- StorybookViewer instance (src/components/StorybookViewer.tsx)
    viewerInst,         \* identity of the mounted instance (0: never mounted)
    currentPage,        \* useState currentPage
    isExporting,        \* useState isExporting
    exportMessage,      \* useState exportMessage
    isDropdownOpen,     \* useState isDropdownOpen
    pages,              \* useMemo pages
    \* ---- the browser
    listeners,          \* keydown listeners registered on window
    exports,            \* handleExport calls, running or finished
    downloads,          \* file-save actions triggered
    alerts,             \* alert() notices shown
    objectURLs          \* object URLs created and not revoked

formVars    == <<appStep, subtitle, author, description, topic, frontCoverPrompt,
                 backCoverPrompt>>
flagVars    == <<isRandomizing, isGeneratingFrontCover, isGeneratingBackCover,
                 isGeneratingBothCovers>>
callVars    == <<ideaCalls, tocCalls, bothCoverCalls>>
chapterVars == <<chapters, allRuns, requests, continueFromPrevious>>
writeVars   == <<appMounted, formVars, flagVars, callVars, chapterVars>>

appVars    == <<title, frontCoverImage, backCoverImage, isLoading, error,
                showBookViewer, finalBookContent, currentBook, bookHistory,
                assembleCalls, coverCalls, clock, writeVars, localStorage>>
viewerVars == <<viewerInst, currentPage, isExporting, exportMessage,
                isDropdownOpen, pages>>
envVars    == <<listeners, exports, downloads, alerts, objectURLs>>
vars       == <<appVars, viewerVars, envVars>>

----------------------------------------------------------------------------
(* Bounds of the model *)

\* The page size of the model. The source sets 2000 (StorybookViewer.tsx:19);
\* the paginator is parametric in it and the documents are scaled with it.
CHARS_PER_PAGE == 6

\* Longest document enumerated for the paginator.
MaxDocLen == 9

----------------------------------------------------------------------------
(* Strings *)

Min(a, b) == IF a < b THEN a ELSE b
Max(a, b) == IF a > b THEN a ELSE b

\* The characters documents are drawn from: '#', the two break characters
\* the paginator looks for, and nothing else ('#' outside a heading marker
\* is an ordinary word character).
Alphabet == {"#", " ", "\n"}

StringsUpTo(n) == UNION {[1..k -> Alphabet] : k \in 0..n}

\* White space as String.prototype.trim sees it, within the model's characters.
WhiteSpace == {" ", "\n", "\t", "\r"}

\* Line terminators as the `m` flag of a RegExp sees them.
LineTerminators == {"\n", "\r"}

IMAGE_PREFIX == <<"I", "M", "A", "G", "E", ":">>

\* s.substring(a, b)
substring(s, a, b) ==
    LET lo == Min(Max(a, 0), Len(s))
        hi == Min(Max(b, 0), Len(s))
    IN  SubSeq(s, Min(lo, hi) + 1, Max(lo, hi))

\* s.startsWith(p)
startsWith(s, p) ==
    /\ Len(s) >= Len(p)
    /\ SubSeq(s, 1, Len(p)) = p

\* s.lastIndexOf(ch, fromIndex) for a one-character ch
lastIndexOf(s, ch, fromIndex) ==
    LET found == {i \in 0..Min(fromIndex, Len(s) - 1) : s[i + 1] = ch}
    IN  IF found = {} THEN -1
        ELSE CHOOSE i \in found : \A j \in found : j <= i

\* s.trim()
trim(s) ==
    LET keep == {i \in 1..Len(s) : s[i] \notin WhiteSpace}
    IN  IF keep = {} THEN <<>>
        ELSE LET lo == CHOOSE i \in keep : \A j \in keep : i <= j
                 hi == CHOOSE i \in keep : \A j \in keep : j <= i
             IN  SubSeq(s, lo, hi)

----------------------------------------------------------------------------
(* The paginator: the useMemo of StorybookViewer.tsx:27-67 *)

\* /(?=^## )/m matches at 0-based position p: a line starts at p and the
\* three characters from p are "## ".
MarkerAt_anywhere(s, p) ==
    /\ p + 3 <= Len(s)
    /\ SubSeq(s, p + 1, p + 3) = <<"#", "#", " ">>

MarkerAt(s, p) ==
    /\ p + 3 <= Len(s)
    /\ SubSeq(s, p + 1, p + 3) = <<"#", "#", " ">>
    /\ (p = 0 \/ s[p] \in LineTerminators)

\* content.split(/(?=^## )/m): String.prototype.split never splits at the
\* position where the previous piece started, so an empty match at 0 is
\* skipped and the pieces are the slices between the matches after 0.
RECURSIVE splitFrom(_, _, _)
splitFrom(s, p, q) ==
    IF q >= Len(s) THEN <<substring(s, p, Len(s))>>
    ELSE IF MarkerAt(s, q) /\ q # p
         THEN <<substring(s, p, q)>> \o splitFrom(s, q, q)
         ELSE splitFrom(s, p, q + 1)

split(s) == IF s = <<>> THEN <<>> ELSE splitFrom(s, 0, 0)

\* .filter(s => s.trim())
sections(content) == SelectSeq(split(content), LAMBDA s : trim(s) # <<>>)

pageEnd_spaceOnly(sectionContent, currentPos) ==
    LET endPos == currentPos + CHARS_PER_PAGE
    IN  IF endPos < Len(sectionContent)
        THEN LET breakPoint == lastIndexOf(sectionContent, " ", endPos)
             IN  IF breakPoint > currentPos THEN breakPoint + 1 ELSE endPos
        ELSE endPos

\* The loop without the test of line 47.
pageEnd_unguarded(sectionContent, currentPos) ==
    LET endPos == currentPos + CHARS_PER_PAGE
    IN  IF endPos < Len(sectionContent)
        THEN LET lastSpace   == lastIndexOf(sectionContent, " ", endPos)
                 lastNewline == lastIndexOf(sectionContent, "\n", endPos)
                 breakPoint  == Max(lastSpace, lastNewline)
             IN  breakPoint + 1
        ELSE endPos

\* The loop looking for its break one character past endPos.
pageEnd_pastLimit(sectionContent, currentPos) ==
    LET endPos == currentPos + CHARS_PER_PAGE
    IN  IF endPos < Len(sectionContent)
        THEN LET lastSpace   == lastIndexOf(sectionContent, " ", endPos + 1)
                 lastNewline == lastIndexOf(sectionContent, "\n", endPos + 1)
                 breakPoint  == Max(lastSpace, lastNewline)
             IN  IF breakPoint > currentPos THEN breakPoint + 1 ELSE endPos
        ELSE endPos

\* One turn of the while loop (lines 40-50): the end of the page that
\* starts at currentPos.
pageEnd(sectionContent, currentPos) ==
    LET endPos == currentPos + CHARS_PER_PAGE
    IN  IF endPos < Len(sectionContent)
        THEN LET lastSpace   == lastIndexOf(sectionContent, " ", endPos)
                 lastNewline == lastIndexOf(sectionContent, "\n", endPos)
                 breakPoint  == Max(lastSpace, lastNewline)
             IN  IF breakPoint > currentPos THEN breakPoint + 1 ELSE endPos
        ELSE endPos

RECURSIVE paginateSection_trimmed(_, _)
paginateSection_trimmed(sectionContent, currentPos) ==
    IF currentPos < Len(sectionContent)
    THEN LET endPos == pageEnd(sectionContent, currentPos)
         IN  <<trim(substring(sectionContent, currentPos, endPos))>>
                 \o paginateSection_trimmed(sectionContent, endPos)
    ELSE <<>>

\* The while loop (lines 38-53) from currentPos on.
RECURSIVE paginateSection(_, _)
paginateSection(sectionContent, currentPos) ==
    IF currentPos < Len(sectionContent)
    THEN LET endPos == pageEnd(sectionContent, currentPos)
         IN  <<substring(sectionContent, currentPos, endPos)>>
                 \o paginateSection(sectionContent, endPos)
    ELSE <<>>

RECURSIVE flatten(_)
flatten(ss) == IF ss = <<>> THEN <<>> ELSE Head(ss) \o flatten(Tail(ss))

\* The fallback page (line 59)
FALLBACK_PAGE ==
    <<
       "#", "#", " ", "B", "o", "o", "k", " ", "G", "e", "n", "e", "r", "a", "t", "i",
       "o", "n", " ", "F", "a", "i", "l", "e", "d", "\n", "\n", "T", "h", "e", "r", "e",
       " ", "w", "a", "s", " ", "a", "n", " ", "i", "s", "s", "u", "e", " ", "g", "e",
       "n", "e", "r", "a", "t", "i", "n", "g", " ", "t", "h", "e", " ", "b", "o", "o",
       "k", " ", "c", "o", "n", "t", "e", "n", "t", ".", " ", "P", "l", "e", "a", "s",
       "e", " ", "c", "l", "o", "s", "e", " ", "t", "h", "i", "s", " ", "v", "i", "e",
       "w", " ", "a", "n", "d", " ", "t", "r", "y", " ", "a", "s", "s", "e", "m", "b",
       "l", "i", "n", "g", " ", "i", "t", " ", "a", "g", "a", "i", "n", "."
    >>

\* The loop run once over the sections joined.
forEachSection_joined(secs) ==
    paginateSection(flatten(secs), 0)

\* sections.forEach(...) (lines 34-54)
forEachSection(secs) ==
    flatten([k \in 1..Len(secs) |-> paginateSection(secs[k], 0)])

generatedPages_noFallback(content) ==
    IF content # <<>> THEN forEachSection(sections(content)) ELSE <<>>

\* generatedPages (lines 28-60)
generatedPages(content) ==
    LET split_pages ==
            IF content # <<>> THEN forEachSection(sections(content)) ELSE <<>>
    IN  IF Len(split_pages) = 0 THEN <<FALLBACK_PAGE>> ELSE split_pages

\* allPages (lines 62-66)
allPages(content, frontCoverUrl, backCoverUrl) ==
    (IF frontCoverUrl # <<>> THEN <<IMAGE_PREFIX \o frontCoverUrl>> ELSE <<>>)
        \o generatedPages(content)
        \o (IF backCoverUrl # <<>> THEN <<IMAGE_PREFIX \o backCoverUrl>> ELSE <<>>)

\* renderPageContent (lines 169-178): TRUE when the page is shown as an image.
rendersAsImage(pageContent) == startsWith(pageContent, IMAGE_PREFIX)

----------------------------------------------------------------------------
(* The persisted state (geminiService.ts:460-501).                           *)
(* A stored item is absent, the JSON text of a value, or text that is not    *)
(* JSON. The fields of the in-progress blob that are plain form inputs       *)
(* without a reader in the model (addAuthorToCover, numChapters, wordCount,  *)
(* bookType, tone) behave like subtitle and are left out.                    *)

\* localStorage.getItem(key) === null
NoItem == [kind |-> "none", value |-> <<>>, missing |-> {}]

\* Stored text that JSON.parse rejects.
Garbage == [kind |-> "garbage", value |-> <<>>, missing |-> {}]

\* JSON.stringify(value): JSON text that holds every key of the value.
stringify(value) == [kind |-> "json", value |-> <<value>>, missing |-> {}]

\* The JSON text `null`
JsonNull == [kind |-> "null", value |-> <<>>, missing |-> {}]

\* JSON.parse(item) returns (it throws otherwise)
parses(item) == item.kind \in {"json", "null"}

\* JSON.parse(item); item.missing names the keys the text does not hold
parse(item) == item.value[1]

\* The object the progress effect serializes (lines 492-495)
bookData ==
    [appStep |-> appStep, title |-> title, subtitle |-> subtitle,
     author |-> author, description |-> description, chapters |-> chapters,
     frontCoverImage |-> frontCoverImage, backCoverImage |-> backCoverImage,
     frontCoverPrompt |-> frontCoverPrompt, backCoverPrompt |-> backCoverPrompt]

\* const isBookReady = ... (line 735)
isBookReady ==
    /\ Len(chapters) > 0
    /\ \A i \in 1..Len(chapters) :
          chapters[i].status = "done" /\ chapters[i].content # <<>>

\* The two persist effects after the first render (lines 491-501): each
\* writes its blob whatever the store holds.
persistOnMount(data, history) ==
    [progress |-> stringify(data), history |-> stringify(history)]

\* The two persist effects after a render of the mounted App (lines
\* 491-501): each runs when one of its dependencies changed and overwrites
\* its whole blob.
persistEffects ==
    localStorage' =
        [progress |-> IF bookData' # bookData
                      THEN stringify(bookData') ELSE localStorage.progress,
         history  |-> IF bookHistory' # bookHistory
                      THEN stringify(bookHistory') ELSE localStorage.history]

----------------------------------------------------------------------------
(* Inputs of the paginator *)

\* Documents: every string over Alphabet up to MaxDocLen, and those of the
\* same length that begin with the image sentinel.
ImageDocs == {IMAGE_PREFIX \o t : t \in StringsUpTo(MaxDocLen - Len(IMAGE_PREFIX))}
Docs      == StringsUpTo(MaxDocLen) \cup ImageDocs

\* A cover image (base64 data), or none.
NoCover   == <<>>
CoverData == <<"Q">>
Covers    == {NoCover, CoverData}

NoTitle   == <<>>

\* The useState initial values (geminiService.ts:418-458;
\* StorybookViewer.tsx:22-25) and the browser before anything happened.
InitialState ==
    /\ title = NoTitle
    /\ isLoading = FALSE
    /\ error = FALSE
    /\ showBookViewer = FALSE
    /\ currentBook = NoTitle
    /\ assembleCalls = <<>>
    /\ coverCalls = {}
    /\ clock = 0
    /\ subtitle = <<>>
    /\ topic = <<>>
    /\ author = <<>>
    /\ description = <<>>
    /\ isRandomizing = FALSE
    /\ isGeneratingFrontCover = FALSE
    /\ isGeneratingBackCover = FALSE
    /\ isGeneratingBothCovers = FALSE
    /\ ideaCalls = <<>>
    /\ tocCalls = <<>>
    /\ bothCoverCalls = <<>>
    /\ allRuns = <<>>
    /\ requests = <<>>
    /\ continueFromPrevious = TRUE
    /\ viewerInst = 0
    /\ currentPage = 0
    /\ isExporting = FALSE
    /\ exportMessage = <<>>
    /\ isDropdownOpen = FALSE
    /\ pages = <<>>
    /\ listeners = <<>>
    /\ exports = <<>>
    /\ downloads = <<>>
    /\ alerts = <<>>
    /\ objectURLs = {}

\* The mounted App before anything happened.
Idle == appMounted = TRUE /\ InitialState

----------------------------------------------------------------------------
(* SpecPaginate: the paginator as a function of its three inputs *)

InitPaginate ==
    /\ Idle
    /\ appStep = "CONFIG"
    /\ chapters = <<>>
    /\ frontCoverPrompt = <<>>
    /\ backCoverPrompt = <<>>
    /\ bookHistory = <<>>
    /\ finalBookContent \in Docs
    /\ frontCoverImage \in Covers
    /\ backCoverImage \in Covers
    /\ localStorage = persistOnMount(bookData, bookHistory)

\* The first render of a viewer given (content, frontCoverUrl, backCoverUrl).
Paginate ==
    /\ viewerInst = 0
    /\ viewerInst' = 1
    /\ pages' = allPages(finalBookContent, frontCoverImage, backCoverImage)
    /\ UNCHANGED <<appVars, envVars, currentPage, isExporting, exportMessage,
                   isDropdownOpen>>

NextPaginate == Paginate

SpecPaginate == InitPaginate /\ [][NextPaginate]_vars

----------------------------------------------------------------------------
(* Vocabulary of the pagination claims *)

Paginated == viewerInst = 1

NCovers == (IF frontCoverImage # NoCover THEN 1 ELSE 0)
             + (IF backCoverImage # NoCover THEN 1 ELSE 0)

\* The pages other than the cover pages the paginator inserted.
TextPages ==
    SubSeq(pages,
           (IF frontCoverImage # NoCover THEN 2 ELSE 1),
           Len(pages) - (IF backCoverImage # NoCover THEN 1 ELSE 0))

\* The pages renderPageContent shows as text.
NonImagePages == SelectSeq(pages, LAMBDA p : ~rendersAsImage(p))

IsBreak(c) == c \in {" ", "\n"}

HasText(s) == \E i \in 1..Len(s) : s[i] \notin WhiteSpace

\* A line of s starts at 0-based position p with "## ".
HeadingAt(s, p) ==
    /\ p + 3 <= Len(s)
    /\ s[p + 1] = "#" /\ s[p + 2] = "#" /\ s[p + 3] = " "
    /\ (p > 0 => s[p] = "\n")

HasMarker(s) == \E p \in 0..Len(s) : HeadingAt(s, p)

\* Where the first section of s ends: the first heading marker after
\* position 0, or the end of s.
FirstSectionEnd(s) ==
    LET ms == {p \in 1..Len(s) : HeadingAt(s, p)}
    IN  IF ms = {} THEN Len(s) ELSE CHOOSE p \in ms : \A q \in ms : p <= q

\* s without its first section when that section holds white space only.
WithoutBlankLead(s) ==
    IF HasText(SubSeq(s, 1, FirstSectionEnd(s))) THEN s
    ELSE SubSeq(s, FirstSectionEnd(s) + 1, Len(s))

----------------------------------------------------------------------------
(* createSlug and the export file names (StorybookViewer.tsx:86-150) *)

UpperCase ==
    <<
       "A", "B", "C", "D", "E", "F", "G", "H", "I", "J", "K", "L", "M",
       "N", "O", "P", "Q", "R", "S", "T", "U", "V", "W", "X", "Y", "Z"
    >>

LowerCase ==
    <<
       "a", "b", "c", "d", "e", "f", "g", "h", "i", "j", "k", "l", "m",
       "n", "o", "p", "q", "r", "s", "t", "u", "v", "w", "x", "y", "z"
    >>

Digits == {"0", "1", "2", "3", "4", "5", "6", "7", "8", "9"}

\* c.toLowerCase() for one character
toLowerCase(c) ==
    IF \E i \in 1..Len(UpperCase) : UpperCase[i] = c
    THEN LowerCase[CHOOSE i \in 1..Len(UpperCase) : UpperCase[i] = c]
    ELSE c

\* [a-z0-9]
isSlugChar(c) == c \in Digits \/ \E i \in 1..Len(LowerCase) : LowerCase[i] = c

\* .replace(/[^a-z0-9]+/g, '-')
RECURSIVE replaceRuns(_, _)
replaceRuns(s, inRun) ==
    IF s = <<>> THEN <<>>
    ELSE IF isSlugChar(Head(s)) THEN <<Head(s)>> \o replaceRuns(Tail(s), FALSE)
    ELSE IF inRun THEN replaceRuns(Tail(s), TRUE)
    ELSE <<"-">> \o replaceRuns(Tail(s), TRUE)

\* .replace(/(^-|-$)/g, '')
stripEnds(s) ==
    LET a == IF s # <<>> /\ s[1] = "-" THEN Tail(s) ELSE s
    IN  IF a # <<>> /\ a[Len(a)] = "-" THEN SubSeq(a, 1, Len(a) - 1) ELSE a

createSlug_noStrip(text) ==
    replaceRuns([i \in 1..Len(text) |-> toLowerCase(text[i])], FALSE)

createSlug(text) ==
    stripEnds(replaceRuns([i \in 1..Len(text) |-> toLowerCase(text[i])], FALSE))

Formats == {"pdf", "docx", "html", "md"}

\* The extension each branch of handleExport writes after the slug.
extension(format) ==
    CASE format = "pdf"  -> <<"p", "d", "f">>
      [] format = "docx" -> <<"d", "o", "c", "x">>
      [] format = "html" -> <<"h", "t", "m", "l">>
      [] format = "md"   -> <<"m", "d">>

fileName_noDot(slug, format) == slug \o extension(format)

\* `${slug}.md`, `${slug}.html`, `${slug}.pdf`, `${slug}.docx`
fileName(slug, format) == slug \o <<".">> \o extension(format)

\* format.toUpperCase()
formatUpper(format) ==
    CASE format = "pdf"  -> "PDF"
      [] format = "docx" -> "DOCX"
      [] format = "html" -> "HTML"
      [] format = "md"   -> "MD"

----------------------------------------------------------------------------
(* Bounds and inputs of the viewer specifications *)

\* handleAssembleBook calls that may be started.
MaxBooks == 2

\* Viewer instances that may be opened from the history.
MaxOpens == 2

\* handleExport calls that may be started.
MaxExports == 2

Titles == { <<"M", "y", " ", "B", "o", "o", "k">>, <<"A", "-", "1", "!">> }

\* Assembled books: two sections, and one whose second section is split.
DocShort == <<"#", "\n", "#", "#", " ", "#">>
DocLong  == <<"#", "\n", "#", "#", " ", "#", "#", "#", "#", "#", "#", "#", "#", "#",
              " ", "#", "#", "#", "#", "#", "#", "#", "#", "#", "#", "#", "#", "#">>
ViewerDocs == {DocShort, DocLong}

\* Books of the history that are exported.
ExportDocs == {DocShort}

Keys == {"ArrowRight", "ArrowLeft", "Escape"}

----------------------------------------------------------------------------
(* The keydown effect of the viewer (StorybookViewer.tsx:71-84) *)

\* The handleKeyDown closure a render creates: it reads the currentPage and
\* totalPages of that render of that instance.
handler(inst, cp, tp) == [inst |-> inst, currentPage |-> cp, totalPages |-> tp]

\* handleKeyDown (lines 72-80): what the closure h does on a key.
handleKeyDown(h, key) ==
    IF key = "ArrowRight" /\ h.currentPage < h.totalPages - 1 THEN "next"
    ELSE IF key = "ArrowLeft" /\ h.currentPage > 0 THEN "prev"
    ELSE IF key = "Escape" THEN "close"
    ELSE "none"

\* window.addEventListener('keydown', h), h a new function
addEventListener(ls, h) == Append(ls, h)

\* window.removeEventListener('keydown', h)
removeEventListener(ls, h) ==
    IF \E i \in 1..Len(ls) : ls[i] = h
    THEN LET i == CHOOSE i \in 1..Len(ls) :
                      ls[i] = h /\ \A j \in 1..(i - 1) : ls[j] # h
         IN  SubSeq(ls, 1, i - 1) \o SubSeq(ls, i + 1, Len(ls))
    ELSE ls

keydownEffect_noCleanup(ls, old, new) == addEventListener(ls, new)

\* The effect after a re-render: the cleanup of the previous effect (line 83),
\* then the effect (line 82).
keydownEffect(ls, old, new) == addEventListener(removeEventListener(ls, old), new)

\* The cleanup when the viewer unmounts (line 83).
keydownCleanup(ls, old) == removeEventListener(ls, old)

\* The closure the mounted viewer has registered.
curHandler == handler(viewerInst, currentPage, Len(pages))

\* The viewer instance inst is the one on screen.
mounted(inst) == showBookViewer /\ viewerInst = inst

\* A keydown event runs every registered listener: the setCurrentPage
\* updaters of the mounted instance's closures are applied in turn.
pageAfterKey(key) ==
    LET mine == {i \in 1..Len(listeners) : mounted(listeners[i].inst)}
    IN  currentPage
          + Cardinality({i \in mine : handleKeyDown(listeners[i], key) = "next"})
          - Cardinality({i \in mine : handleKeyDown(listeners[i], key) = "prev"})

closesOnKey(key) ==
    \E i \in 1..Len(listeners) : handleKeyDown(listeners[i], key) = "close"

----------------------------------------------------------------------------
(* Rendering the viewer *)

\* First render of a new instance with the given props
\* (useState initial values, lines 22-25; useMemo; the effect).
Mount(content, front, back) ==
    /\ viewerInst' = viewerInst + 1
    /\ currentPage' = 0
    /\ isExporting' = FALSE
    /\ exportMessage' = <<>>
    /\ isDropdownOpen' = FALSE
    /\ pages' = allPages(content, front, back)
    /\ listeners' = addEventListener(listeners,
                                     handler(viewerInst + 1, 0, Len(pages')))

\* Re-render of the mounted instance after setCurrentPage: the props are
\* the same, so useMemo keeps the pages (line 67).
Rerender(cp) ==
    /\ currentPage' = cp
    /\ pages' = pages
    /\ listeners' = keydownEffect(listeners, curHandler,
                                  handler(viewerInst, cp, Len(pages)))

\* Re-render of the mounted instance with new props: useMemo recomputes the
\* pages; the state of the instance stays.
RerenderProps(content, front, back) ==
    /\ currentPage' = currentPage
    /\ pages' = allPages(content, front, back)
    /\ listeners' = keydownEffect(listeners, curHandler,
                                  handler(viewerInst, currentPage, Len(pages')))

\* The instance leaves the screen: its state is gone, its effect cleaned up.
Unmount ==
    /\ listeners' = keydownCleanup(listeners, curHandler)
    /\ currentPage' = 0
    /\ isExporting' = FALSE
    /\ exportMessage' = <<>>
    /\ isDropdownOpen' = FALSE
    /\ pages' = <<>>
    /\ UNCHANGED viewerInst

----------------------------------------------------------------------------
(* The App: title, covers, assemble, history (geminiService.ts:417-857).     *)
(* The viewer is a full-screen overlay (`fixed inset-0 z-50`), so the App's  *)
(* own controls are clicked only while it is closed, each on the screen      *)
(* that shows it (lines 831-833); the history is shown under every screen.   *)
(* assembleBook may return any of ViewerDocs.                                *)

\* The App state that the writing workflow never touches.
bookVars == <<showBookViewer, finalBookContent, currentBook, bookHistory,
              assembleCalls, coverCalls, clock>>

onScreen(step) == appStep = step /\ ~showBookViewer

\* The three navigation buttons (geminiService.ts:791, 800)
setAppStep(step) ==
    /\ \/ onScreen("COVERS") /\ step \in {"CONFIG", "WRITING"}
       \/ onScreen("WRITING") /\ step = "COVERS"
    /\ appStep' = step
    /\ UNCHANGED <<title, frontCoverImage, backCoverImage, isLoading, error,
                   bookVars, appMounted, subtitle, author, description, topic,
                   frontCoverPrompt, backCoverPrompt, flagVars, callVars,
                   chapterVars>>
    /\ UNCHANGED <<viewerVars, envVars>>
    /\ persistEffects

\* <input id="title" onChange={e => setTitle(e.target.value)}> (line 750)
handleTitleChange(t) ==
    /\ onScreen("CONFIG")
    /\ t # title
    /\ title' = t
    /\ UNCHANGED <<frontCoverImage, backCoverImage, isLoading, error, showBookViewer,
                   finalBookContent, currentBook, bookHistory, assembleCalls,
                   coverCalls, clock>>
    /\ UNCHANGED <<viewerVars, envVars>>
    /\ UNCHANGED writeVars
    /\ persistEffects

\* handleGenerateCover(type) up to its await (lines 581-593)
handleGenerateCover(type) ==
    /\ onScreen("COVERS")
    /\ ~isGeneratingBothCovers           \* disabled={isGeneratingBothCovers ||
    /\ ~(IF type = "front" THEN isGeneratingFrontCover  \*  isGeneratingFrontCover}
                           ELSE isGeneratingBackCover)
    /\ type \notin coverCalls
    /\ LET prompt == IF type = "front" THEN frontCoverPrompt ELSE backCoverPrompt
       IN  IF prompt = <<>>
           THEN /\ error' = TRUE
                /\ UNCHANGED <<coverCalls, isGeneratingFrontCover,
                               isGeneratingBackCover>>
           ELSE /\ coverCalls' = coverCalls \cup {type}
                /\ error' = FALSE
                /\ isGeneratingFrontCover' = (type = "front" \/ isGeneratingFrontCover)
                /\ isGeneratingBackCover' = (type = "back" \/ isGeneratingBackCover)
    /\ UNCHANGED <<title, frontCoverImage, backCoverImage, isLoading, showBookViewer,
                   finalBookContent, currentBook, bookHistory, assembleCalls, clock>>
    /\ UNCHANGED <<viewerVars, envVars>>
    /\ UNCHANGED <<appMounted, formVars, isRandomizing, isGeneratingBothCovers,
                   callVars, chapterVars>>
    /\ persistEffects

\* generateBookCover resolved: setImage(imageData), finally (lines 594, 598)
generateCoverResolved(type) ==
    /\ type \in coverCalls
    /\ coverCalls' = coverCalls \ {type}
    /\ frontCoverImage' = IF type = "front" THEN CoverData ELSE frontCoverImage
    /\ backCoverImage'  = IF type = "back" THEN CoverData ELSE backCoverImage
    /\ IF showBookViewer
       THEN /\ RerenderProps(finalBookContent, frontCoverImage', backCoverImage')
            /\ UNCHANGED <<viewerInst, isExporting, exportMessage, isDropdownOpen>>
       ELSE UNCHANGED <<viewerVars, listeners>>
    /\ UNCHANGED <<title, isLoading, error, showBookViewer, finalBookContent,
                   currentBook, bookHistory, assembleCalls, clock>>
    /\ UNCHANGED <<exports, downloads, alerts, objectURLs>>
    /\ isGeneratingFrontCover' = (type # "front" /\ isGeneratingFrontCover)
    /\ isGeneratingBackCover' = (type # "back" /\ isGeneratingBackCover)
    /\ UNCHANGED <<appMounted, formVars, isRandomizing, isGeneratingBothCovers,
                   callVars, chapterVars>>
    /\ persistEffects

\* The catch block without the finally block.
generateCoverRejected_stuck(type) ==
    /\ type \in coverCalls
    /\ coverCalls' = coverCalls \ {type}
    /\ error' = TRUE
    /\ UNCHANGED <<title, frontCoverImage, backCoverImage, isLoading, showBookViewer,
                   finalBookContent, currentBook, bookHistory, assembleCalls, clock>>
    /\ UNCHANGED <<viewerVars, envVars>>
    /\ UNCHANGED writeVars
    /\ persistEffects

\* generateBookCover rejected: setError, finally (lines 595-598)
generateCoverRejected(type) ==
    /\ type \in coverCalls
    /\ coverCalls' = coverCalls \ {type}
    /\ error' = TRUE
    /\ UNCHANGED <<title, frontCoverImage, backCoverImage, isLoading, showBookViewer,
                   finalBookContent, currentBook, bookHistory, assembleCalls, clock>>
    /\ UNCHANGED <<viewerVars, envVars>>
    /\ isGeneratingFrontCover' = (type # "front" /\ isGeneratingFrontCover)
    /\ isGeneratingBackCover' = (type # "back" /\ isGeneratingBackCover)
    /\ UNCHANGED <<appMounted, formVars, isRandomizing, isGeneratingBothCovers,
                   callVars, chapterVars>>
    /\ persistEffects

\* handleAssembleBook up to its await (lines 696-702). The closure keeps the
\* title and the covers of the render it was created in.
handleAssembleBook ==
    /\ onScreen("WRITING")
    /\ isBookReady /\ ~isLoading         \* disabled={!isBookReady || isLoading}
    /\ clock + Len(assembleCalls) < MaxBooks
    /\ isLoading' = TRUE
    /\ error' = FALSE
    /\ assembleCalls' = Append(assembleCalls,
                               [title |-> title,
                                frontCoverImage |-> frontCoverImage,
                                backCoverImage |-> backCoverImage])
    /\ UNCHANGED <<title, frontCoverImage, backCoverImage, showBookViewer,
                   finalBookContent, currentBook, bookHistory, coverCalls, clock>>
    /\ UNCHANGED <<viewerVars, envVars>>
    /\ UNCHANGED writeVars
    /\ persistEffects

\* assembleBook resolved with fullBook (lines 703-714, 718)
assembleResolved(fullBook) ==
    /\ assembleCalls # <<>>
    /\ LET c == Head(assembleCalls)
           newHistoryEntry ==
               [id |-> clock + 1,
                title |-> c.title,
                assembledContent |-> fullBook,
                frontCoverImage |-> c.frontCoverImage,
                backCoverImage |-> c.backCoverImage]
       IN  /\ finalBookContent' = fullBook
           /\ currentBook' = c.title
           /\ showBookViewer' = TRUE
           /\ bookHistory' = <<newHistoryEntry>>
                               \o SelectSeq(bookHistory, LAMBDA b : b.title # c.title)
    /\ clock' = clock + 1
    /\ isLoading' = FALSE
    /\ assembleCalls' = Tail(assembleCalls)
    /\ IF showBookViewer
       THEN /\ RerenderProps(fullBook, frontCoverImage, backCoverImage)
            /\ UNCHANGED <<viewerInst, isExporting, exportMessage, isDropdownOpen>>
       ELSE Mount(fullBook, frontCoverImage, backCoverImage)
    /\ UNCHANGED <<title, frontCoverImage, backCoverImage, error, coverCalls>>
    /\ UNCHANGED <<exports, downloads, alerts, objectURLs>>
    /\ UNCHANGED writeVars
    /\ persistEffects

\* assembleBook rejected (lines 715-718)
assembleRejected ==
    /\ assembleCalls # <<>>
    /\ error' = TRUE
    /\ isLoading' = FALSE
    /\ assembleCalls' = Tail(assembleCalls)
    /\ UNCHANGED <<title, frontCoverImage, backCoverImage, showBookViewer,
                   finalBookContent, currentBook, bookHistory, coverCalls, clock>>
    /\ UNCHANGED <<viewerVars, envVars>>
    /\ UNCHANGED writeVars
    /\ persistEffects

\* handleReadFromHistory(book) (lines 722-728)
handleReadFromHistory(k) ==
    /\ ~showBookViewer
    /\ k \in 1..Len(bookHistory)
    /\ viewerInst < MaxOpens
    /\ LET book == bookHistory[k]
       IN  /\ finalBookContent' = book.assembledContent
           /\ currentBook' = book.title
           /\ frontCoverImage' = book.frontCoverImage
           /\ backCoverImage' = book.backCoverImage
           /\ showBookViewer' = TRUE
           /\ Mount(book.assembledContent, book.frontCoverImage, book.backCoverImage)
    /\ UNCHANGED <<title, isLoading, error, bookHistory, assembleCalls, coverCalls, clock>>
    /\ UNCHANGED <<exports, downloads, alerts, objectURLs>>
    /\ UNCHANGED writeVars
    /\ persistEffects

\* handleDeleteFromHistory(id), confirmed (lines 730-732)
handleDeleteFromHistory(k) ==
    /\ ~showBookViewer
    /\ k \in 1..Len(bookHistory)
    /\ bookHistory' = SelectSeq(bookHistory, LAMBDA b : b.id # bookHistory[k].id)
    /\ UNCHANGED <<title, frontCoverImage, backCoverImage, isLoading, error,
                   showBookViewer, finalBookContent, currentBook, assembleCalls,
                   coverCalls, clock>>
    /\ UNCHANGED <<viewerVars, envVars>>
    /\ UNCHANGED writeVars
    /\ persistEffects

----------------------------------------------------------------------------
(* The viewer's controls (StorybookViewer.tsx:71-84, 183, 213-229) *)

\* onClose={() => setShowBookViewer(false)} (geminiService.ts:824), from the
\* close button (line 183)
onClose ==
    /\ showBookViewer
    /\ showBookViewer' = FALSE
    /\ Unmount
    /\ UNCHANGED <<title, frontCoverImage, backCoverImage, isLoading, error,
                   finalBookContent, currentBook, bookHistory, assembleCalls,
                   coverCalls, clock>>
    /\ UNCHANGED <<exports, downloads, alerts, objectURLs>>
    /\ UNCHANGED writeVars
    /\ persistEffects

\* The Previous button (lines 214-220)
ClickPrevious ==
    /\ showBookViewer
    /\ ~(currentPage = 0)                \* disabled={currentPage === 0}
    /\ Rerender(currentPage - 1)
    /\ UNCHANGED <<viewerInst, isExporting, exportMessage, isDropdownOpen>>
    /\ UNCHANGED <<appVars, exports, downloads, alerts, objectURLs>>

\* The Next button (lines 222-228)
ClickNext ==
    /\ showBookViewer
    /\ ~(currentPage >= Len(pages) - 1)  \* disabled={currentPage >= totalPages - 1}
    /\ Rerender(currentPage + 1)
    /\ UNCHANGED <<viewerInst, isExporting, exportMessage, isDropdownOpen>>
    /\ UNCHANGED <<appVars, exports, downloads, alerts, objectURLs>>

\* A keydown event on window: every registered listener runs (lines 72-80).
KeyDown(key) ==
    /\ listeners # <<>>
    /\ IF closesOnKey(key)
       THEN /\ showBookViewer' = FALSE
            /\ Unmount
       ELSE /\ Rerender(pageAfterKey(key))
            /\ UNCHANGED <<showBookViewer, viewerInst, isExporting, exportMessage,
                           isDropdownOpen>>
    /\ UNCHANGED <<title, frontCoverImage, backCoverImage, isLoading, error,
                   finalBookContent, currentBook, bookHistory, assembleCalls,
                   coverCalls, clock>>
    /\ UNCHANGED <<exports, downloads, alerts, objectURLs>>
    /\ UNCHANGED writeVars
    /\ persistEffects

----------------------------------------------------------------------------
(* Spec: the App and the viewer's navigation *)

\* The App after its load effect read a saved book whose one chapter is
\* written (geminiService.ts:460-476).
Init ==
    /\ Idle
    /\ appStep = "WRITING"
    /\ chapters = <<[title |-> <<"1">>, content |-> <<"x">>, status |-> "done"]>>
    /\ frontCoverPrompt = <<"F">>
    /\ backCoverPrompt = <<"B">>
    /\ bookHistory = <<>>
    /\ finalBookContent = <<>>
    /\ frontCoverImage = NoCover
    /\ backCoverImage = NoCover
    /\ localStorage = persistOnMount(bookData, bookHistory)

Next ==
    \/ \E step \in {"CONFIG", "COVERS", "WRITING"} : setAppStep(step)
    \/ \E t \in Titles : handleTitleChange(t)
    \/ \E type \in {"front", "back"} : handleGenerateCover(type)
    \/ \E type \in {"front", "back"} : generateCoverResolved(type)
    \/ \E type \in {"front", "back"} : generateCoverRejected(type)
    \/ handleAssembleBook
    \/ \E fullBook \in ViewerDocs : assembleResolved(fullBook)
    \/ assembleRejected
    \/ \E k \in 1..MaxBooks : handleReadFromHistory(k)
    \/ \E k \in 1..MaxBooks : handleDeleteFromHistory(k)
    \/ onClose
    \/ ClickPrevious
    \/ ClickNext
    \/ \E key \in Keys : KeyDown(key)

Spec == Init /\ [][Next]_vars

----------------------------------------------------------------------------
(* Export (StorybookViewer.tsx:88-167, 195-211).                             *)
(* A handleExport call is a record: the instance whose state it sets, the    *)
(* props and pages of the render its closure was created in, and where it    *)
(* is suspended: "timeout" (line 96), "raster" (line 122, page i), "pack"    *)
(* (line 149) or "done" (finally has run). The collaborators marked,         *)
(* html2canvas, jsPDF and Packer either return or throw. A PDF export also   *)
(* carries what it built: whether its pageContainer is a child of            *)
(* document.body (inBody), the page elements in the container (children)     *)
(* and the jsPDF document (pdf), a sequence of pages, each the sequence of   *)
(* the images put on it.                                                     *)

\* The Export button (lines 196-202)
ToggleDropdown ==
    /\ showBookViewer
    /\ ~isExporting                      \* disabled={isExporting}
    /\ isDropdownOpen' = ~isDropdownOpen
    /\ UNCHANGED <<viewerInst, currentPage, isExporting, exportMessage, pages>>
    /\ UNCHANGED <<appVars, envVars>>

\* handleExport(format) up to its first await (lines 88-96), from one of the
\* four buttons of the dropdown (lines 203-210)
handleExport(format) ==
    /\ showBookViewer
    /\ isDropdownOpen /\ ~isExporting    \* {isDropdownOpen && !isExporting && ...}
    /\ Len(exports) < MaxExports
    /\ isDropdownOpen' = FALSE
    /\ isExporting' = TRUE
    /\ exportMessage' = <<"Exporting as ", formatUpper(format), "...">>
    /\ exports' = Append(exports,
                         [inst |-> viewerInst,
                          format |-> format,
                          title |-> currentBook,
                          slug |-> createSlug(currentBook),
                          content |-> finalBookContent,
                          pages |-> pages,
                          pc |-> "timeout",
                          i |-> 0,
                          threw |-> FALSE,
                          inBody |-> FALSE,
                          children |-> <<>>,
                          pdf |-> <<>>])
    /\ UNCHANGED <<viewerInst, currentPage, pages>>
    /\ UNCHANGED <<appVars, listeners, downloads, alerts, objectURLs>>

\* `Processing page ${i + 1}/${pages.length}...` (line 113), i 0-based
processingMessage(i, n) ==
    <<"Processing page ", ToString(i + 1), "/", ToString(n), "...">>

exportSettles_rewind(e, x, dl, al, msg, urls) ==
    /\ exports' = [exports EXCEPT ![e] = x]
    /\ downloads' = downloads \o dl
    /\ alerts' = alerts \o al
    /\ objectURLs' = urls
    /\ IF mounted(exports[e].inst)
       THEN IF x.pc = "done"
            THEN isExporting' = FALSE /\ exportMessage' = <<>>
            ELSE isExporting' = isExporting /\ exportMessage' = msg
       ELSE UNCHANGED <<isExporting, exportMessage>>
    /\ currentPage' = IF x.pc = "done" THEN 0 ELSE currentPage
    /\ UNCHANGED <<viewerInst, isDropdownOpen, pages>>
    /\ UNCHANGED <<appVars, listeners>>

\* The call e goes on to x, having triggered the downloads dl and shown the
\* alerts al, with urls the object URLs then live. Its setState calls reach
\* the instance it belongs to only while that instance is mounted:
\* setExportMessage(msg) when it suspends again, the finally block (lines
\* 155-158) when it is done.
exportSettles(e, x, dl, al, msg, urls) ==
    /\ exports' = [exports EXCEPT ![e] = x]
    /\ downloads' = downloads \o dl
    /\ alerts' = alerts \o al
    /\ objectURLs' = urls
    /\ IF mounted(exports[e].inst)
       THEN IF x.pc = "done"
            THEN isExporting' = FALSE /\ exportMessage' = <<>>
            ELSE isExporting' = isExporting /\ exportMessage' = msg
       ELSE UNCHANGED <<isExporting, exportMessage>>
    /\ UNCHANGED <<viewerInst, currentPage, isDropdownOpen, pages>>
    /\ UNCHANGED <<appVars, listeners>>

\* URL.createObjectURL(blob) (line 163): a new URL, named after the export
createObjectURL(urls, e) == urls \cup {e}

\* URL.revokeObjectURL(link.href) (line 166)
revokeObjectURL(urls, href) == urls \ {href}

\* link.click() with link.download = filename (lines 164-165)
click(e, filename) == <<[export |-> e, name |-> filename]>>

saveAs_noRevoke(urls, e, filename) ==
    [objectURLs |-> createObjectURL(urls, e), downloads |-> click(e, filename)]

\* saveAs(blob, filename) (lines 161-167)
saveAs(urls, e, filename) ==
    LET created == createObjectURL(urls, e)
    IN  [objectURLs |-> revokeObjectURL(created, e),
         downloads  |-> click(e, filename)]

\* pdf.save(filename) (line 131): jsPDF writes the file; the viewer creates
\* no object URL on this path.
pdfSave(urls, e, filename) ==
    [objectURLs |-> urls, downloads |-> click(e, filename)]

\* saveAs(blob, name) / pdf.save(name) reached (lines 100, 104, 131, 150),
\* the call having got to x
exportSaves(e, x) ==
    LET name  == fileName(x.slug, x.format)
        saved == IF x.format = "pdf"
                 THEN pdfSave(objectURLs, e, name)
                 ELSE saveAs(objectURLs, e, name)
    IN  exportSettles(e, [x EXCEPT !.pc = "done"],
                      saved.downloads, <<>>, <<>>, saved.objectURLs)

exportCatches_silent(e, x) ==
    exportSettles(e, [x EXCEPT !.pc = "done", !.threw = TRUE],
                  <<>>, <<>>, <<>>, objectURLs)

\* catch (lines 152-154), the call having got to x when a collaborator threw:
\* the failure notice, and nothing else before finally.
exportCatches(e, x) ==
    exportSettles(e, [x EXCEPT !.pc = "done", !.threw = TRUE],
                  <<>>, <<e>>, <<>>, objectURLs)

\* new jsPDF('p', 'pt', 'a4') (line 106): a document of one empty page
jsPDF == <<<<>>>>

\* pdf.addPage() (line 126)
addPage(pdf) == Append(pdf, <<>>)

\* pdf.addImage(imgData, 'PNG', 0, 0, 595, 842) (line 127): onto the current
\* page, which is the last one
addImage(pdf, imgData) == [pdf EXCEPT ![Len(pdf)] = Append(@, imgData)]

\* The page element of a page (lines 114-120): an img for a cover, the HTML
\* marked.parse makes of the text otherwise
pageElement(page) ==
    [tag |-> IF rendersAsImage(page) THEN "img" ELSE "html", source |-> page]

\* html2canvas(pageElement, { scale: 2 }) and canvas.toDataURL('image/png')
\* (lines 122, 125): the picture of the element
html2canvas(element) == [png |-> element]

\* pageContainer.appendChild(pageElement) (line 121)
appendChild(children, element) == Append(children, element)

\* pageContainer.removeChild(pageElement) (line 123)
removeChild(children, element) == SelectSeq(children, LAMBDA c : c # element)

\* The container created and attached (lines 107-110)
containerAttached(x) == [x EXCEPT !.inBody = TRUE, !.pdf = jsPDF]

\* The top of the loop for page i (lines 113-121), up to the await
rasterStarts(x, i) ==
    [x EXCEPT !.pc = "raster", !.i = i,
              !.children = appendChild(@, pageElement(x.pages[i + 1]))]

pageRasterized_samePage(x) ==
    LET element == pageElement(x.pages[x.i + 1])
    IN  [x EXCEPT !.children = removeChild(@, element),
                  !.pdf = addImage(@, html2canvas(element))]

\* After the await for page i (lines 123-127): the element leaves the
\* container and its picture goes onto a page of its own.
pageRasterized(x) ==
    LET element == pageElement(x.pages[x.i + 1])
    IN  [x EXCEPT !.children = removeChild(@, element),
                  !.pdf = addImage(IF x.i > 0 THEN addPage(@) ELSE @,
                                   html2canvas(element))]

\* After the 100 ms timeout (lines 98-122, 133-149): md and html finish here,
\* pdf goes into its page loop, docx awaits Packer.toBlob.
exportAfterTimeout(e, ok) ==
    /\ e \in 1..Len(exports)
    /\ exports[e].pc = "timeout"
    /\ LET x == exports[e]
       IN  CASE x.format = "md" ->
                    ok /\ exportSaves(e, x)
             [] x.format = "html" ->
                    IF ok THEN exportSaves(e, x) ELSE exportCatches(e, x)
             [] x.format = "pdf" ->
                    IF ok
                    THEN exportSettles(e, rasterStarts(containerAttached(x), 0),
                                       <<>>, <<>>,
                                       processingMessage(0, Len(x.pages)),
                                       objectURLs)
                    ELSE \* jsPDF threw (line 106), or marked.parse on the
                         \* first page if that is text (line 120)
                         \/ exportCatches(e, x)
                         \/ /\ ~rendersAsImage(x.pages[1])
                            /\ exportCatches(e, containerAttached(x))
             [] x.format = "docx" ->
                    ok /\ exportSettles(e, [x EXCEPT !.pc = "pack"],
                                        <<>>, <<>>, exportMessage, objectURLs)

\* html2canvas settled for page i (lines 122-131): the next page, or the end
\* of the loop and pdf.save.
exportAfterRaster(e, ok) ==
    /\ e \in 1..Len(exports)
    /\ exports[e].pc = "raster"
    /\ LET x == exports[e]
           y == pageRasterized(x)
       IN  IF ~ok
           THEN \* html2canvas rejected (line 122), or marked.parse threw on
                \* the next page if that is text (line 120)
                \/ exportCatches(e, x)
                \/ /\ x.i + 1 < Len(x.pages)
                   /\ ~rendersAsImage(x.pages[x.i + 2])
                   /\ exportCatches(e, y)
           ELSE IF x.i + 1 < Len(x.pages)
                THEN exportSettles(e, rasterStarts(y, x.i + 1), <<>>, <<>>,
                                   processingMessage(x.i + 1, Len(x.pages)),
                                   objectURLs)
                ELSE \* document.body.removeChild(pageContainer) (line 130)
                     exportSaves(e, [y EXCEPT !.inBody = FALSE])

\* Packer.toBlob settled (lines 149-150)
exportAfterPack(e, ok) ==
    /\ e \in 1..Len(exports)
    /\ exports[e].pc = "pack"
    /\ IF ok THEN exportSaves(e, exports[e]) ELSE exportCatches(e, exports[e])

----------------------------------------------------------------------------
(* SpecExport: one book in the history, read and exported *)

HistoryBooks ==
    {[id |-> 1, title |-> t, assembledContent |-> d,
      frontCoverImage |-> f, backCoverImage |-> NoCover] :
        t \in Titles, d \in ExportDocs, f \in Covers}

\* The App after its load effect read a history of one book
\* (geminiService.ts:481-484).
InitExport ==
    /\ Idle
    /\ appStep = "CONFIG"
    /\ chapters = <<>>
    /\ frontCoverPrompt = <<>>
    /\ backCoverPrompt = <<>>
    /\ finalBookContent = <<>>
    /\ frontCoverImage = NoCover
    /\ backCoverImage = NoCover
    /\ \E b \in HistoryBooks : bookHistory = <<b>>
    /\ localStorage = persistOnMount(bookData, bookHistory)

NextExport ==
    \/ \E k \in 1..MaxBooks : handleReadFromHistory(k)
    \/ onClose
    \/ ClickPrevious
    \/ ClickNext
    \/ \E key \in Keys : KeyDown(key)
    \/ ToggleDropdown
    \/ \E format \in Formats : handleExport(format)
    \/ \E e \in 1..MaxExports, ok \in BOOLEAN : exportAfterTimeout(e, ok)
    \/ \E e \in 1..MaxExports, ok \in BOOLEAN : exportAfterRaster(e, ok)
    \/ \E e \in 1..MaxExports, ok \in BOOLEAN : exportAfterPack(e, ok)

SpecExport == InitExport /\ [][NextExport]_vars

----------------------------------------------------------------------------
(* The generation service (geminiService.ts:22-220). A response of the       *)
(* model API is described by what the service function looks at.             *)

\* What an awaited service call settles to.
Fulfilled(v) == [settled |-> "fulfilled", value |-> <<v>>]
Rejected     == [settled |-> "rejected", value |-> <<>>]

\* Responses to generateRandomBookIdea: the call returned (ok), its text is
\* JSON (parses), the JSON is null (isNull), the keys the JSON object lacks
\* (missing) and the values of the keys it has (idea).
BlankIdea == [title |-> <<>>, subtitle |-> <<>>, author |-> <<>>, description |-> <<>>]
GoodIdea  == [title |-> <<"I", "d", "e", "a">>, subtitle |-> <<"s">>,
              author |-> <<"a">>, description |-> <<"d">>]

IdeaResponses ==
    { [ok |-> FALSE, parses |-> FALSE, isNull |-> FALSE, missing |-> {}, idea |-> BlankIdea],
      [ok |-> TRUE,  parses |-> FALSE, isNull |-> FALSE, missing |-> {}, idea |-> BlankIdea],
      [ok |-> TRUE,  parses |-> TRUE,  isNull |-> TRUE,  missing |-> {}, idea |-> BlankIdea],
      [ok |-> TRUE,  parses |-> TRUE,  isNull |-> FALSE, missing |-> {}, idea |-> GoodIdea],
      [ok |-> TRUE,  parses |-> TRUE,  isNull |-> FALSE, missing |-> {"description"},
       idea |-> [GoodIdea EXCEPT !.description = <<>>]] }

\* The placeholder of a call that has not settled.
NoIdeaResponse == [ok |-> FALSE, parses |-> FALSE, isNull |-> FALSE, missing |-> {},
                   idea |-> BlankIdea]

\* generateRandomBookIdea (lines 22-55): the parsed JSON is returned as it is.
generateRandomBookIdea(response) ==
    IF response.ok /\ response.parses
    THEN Fulfilled(response)
    ELSE Rejected

\* idea.<key> of a parsed idea: undefined when the key is missing
field(result, key) ==
    IF key \in result.missing THEN <<>> ELSE result.idea[key]

\* Responses to generateTableOfContents: ok, parses, the JSON is an array
\* (isArray) of strings only (allStrings), and its elements (titles).
TocTitles == <<<<"1">>>>

TocResponses ==
    { [ok |-> FALSE, parses |-> FALSE, isArray |-> FALSE, allStrings |-> FALSE, titles |-> <<>>],
      [ok |-> TRUE,  parses |-> FALSE, isArray |-> FALSE, allStrings |-> FALSE, titles |-> <<>>],
      [ok |-> TRUE,  parses |-> TRUE,  isArray |-> FALSE, allStrings |-> FALSE, titles |-> <<>>],
      [ok |-> TRUE,  parses |-> TRUE,  isArray |-> TRUE,  allStrings |-> FALSE, titles |-> TocTitles],
      [ok |-> TRUE,  parses |-> TRUE,  isArray |-> TRUE,  allStrings |-> TRUE,  titles |-> TocTitles] }

\* generateTableOfContents (lines 57-95)
generateTableOfContents(response) ==
    IF response.ok /\ response.parses /\ response.isArray /\ response.allStrings
    THEN Fulfilled(response.titles)
    ELSE Rejected

\* The least length of a chapter that is accepted, less one. The source
\* sets 100 (`content.length > 100`, line 129); the texts are scaled with it.
MinContentLength == 3

\* Responses to generateChapterContent: ok and the text.
LongText(c)  == [i \in 1..(MinContentLength + 1) |-> c]
ChapterTexts ==
    { <<>>,                                    \* empty
      <<" ", "\n">>,                           \* white space only
      <<"H", "i">>,                            \* too short
      [i \in 1..MinContentLength |-> "b"],     \* one character too short
      LongText("."),                           \* no letter or digit
      LongText("a"),                           \* a chapter
      <<" ">> \o LongText("a") \o <<"\n">> }   \* a chapter inside white space

ChapterResponses ==
    {[ok |-> FALSE, text |-> <<>>]} \cup {[ok |-> TRUE, text |-> t] : t \in ChapterTexts}

\* /[a-zA-Z0-9]/.test(content) (line 127)
hasActualText(content) ==
    \E i \in 1..Len(content) :
        \/ content[i] \in Digits
        \/ \E k \in 1..Len(LowerCase) : content[i] \in {LowerCase[k], UpperCase[k]}

\* generateChapterContent (lines 97-140)
generateChapterContent(response) ==
    IF ~response.ok THEN Rejected
    ELSE LET content      == trim(response.text)
             isLongEnough == Len(content) > MinContentLength
         IN  IF content = <<>> \/ ~hasActualText(content) \/ ~isLongEnough
             THEN Rejected
             ELSE Fulfilled(content)

----------------------------------------------------------------------------
(* The writing workflow of the App (geminiService.ts:503-694, 737-812):      *)
(* idea, table of contents, both covers, chapters, clearing the book. Each   *)
(* screen shows its own controls (lines 831-833), and none can be clicked    *)
(* under the open viewer.                                                    *)

\* Bounds: calls of each kind that may be started.
MaxIdeas == 1
MaxTocs == 1
MaxBoth == 1
MaxRuns == 1
MaxRequests == 2

\* handleRandomizeBookSettings up to its await (lines 542-546)
handleRandomizeBookSettings ==
    /\ onScreen("CONFIG")
    /\ ~(isLoading \/ isRandomizing)     \* disabled={isLoading || isRandomizing}
    /\ Len(ideaCalls) < MaxIdeas
    /\ isRandomizing' = TRUE
    /\ error' = FALSE
    /\ ideaCalls' = Append(ideaCalls, [pc |-> "await", response |-> NoIdeaResponse])
    /\ UNCHANGED <<title, frontCoverImage, backCoverImage, isLoading, bookVars,
                   appMounted, formVars, isGeneratingFrontCover,
                   isGeneratingBackCover, isGeneratingBothCovers, tocCalls,
                   bothCoverCalls, chapterVars>>
    /\ UNCHANGED <<viewerVars, envVars>>
    /\ persistEffects

\* generateRandomBookIdea settled for the call k (lines 546-555). Reading a
\* key of null throws inside the try block.
ideaSettles(k, response) ==
    /\ k \in 1..Len(ideaCalls)
    /\ ideaCalls[k].pc = "await"
    /\ LET outcome == generateRandomBookIdea(response)
           applies == outcome.settled = "fulfilled" /\ ~outcome.value[1].isNull
           idea    == outcome.value[1]
       IN  /\ IF applies
              THEN /\ title' = field(idea, "title")
                   /\ subtitle' = field(idea, "subtitle")
                   /\ author' = field(idea, "author")
                   /\ description' = field(idea, "description")
                   /\ error' = error
              ELSE /\ error' = TRUE
                   /\ UNCHANGED <<title, subtitle, author, description>>
           /\ ideaCalls' = [ideaCalls EXCEPT
                              ![k] = [pc |-> IF applies THEN "applied" ELSE "failed",
                                      response |-> response]]
    /\ isRandomizing' = FALSE
    /\ UNCHANGED <<frontCoverImage, backCoverImage, isLoading, bookVars, appMounted,
                   appStep, topic, frontCoverPrompt, backCoverPrompt,
                   isGeneratingFrontCover, isGeneratingBackCover,
                   isGeneratingBothCovers, tocCalls, bothCoverCalls, chapterVars>>
    /\ UNCHANGED <<viewerVars, envVars>>
    /\ persistEffects

\* handleGenerateToc up to its await (lines 558-568). The button is disabled
\* without a title or a description (line 772), so the first branch of the
\* handler is not taken.
handleGenerateToc ==
    /\ onScreen("CONFIG")
    /\ ~(isLoading \/ isRandomizing)
    /\ title # <<>> /\ description # <<>>
    /\ Len(tocCalls) < MaxTocs
    /\ isLoading' = TRUE
    /\ error' = FALSE
    /\ chapters' = <<>>
    /\ tocCalls' = Append(tocCalls, [pc |-> "await", title |-> title])
    /\ UNCHANGED <<title, frontCoverImage, backCoverImage, bookVars, appMounted,
                   formVars, flagVars, ideaCalls, bothCoverCalls, allRuns, requests,
                   continueFromPrevious>>
    /\ UNCHANGED <<viewerVars, envVars>>
    /\ persistEffects

\* The cover prompts handleGenerateToc writes for a title (lines 571-572)
coverPrompt(side, t) == <<side>> \o t

\* generateTableOfContents settled for the call k (lines 569-579)
tocSettles(k, response) ==
    /\ k \in 1..Len(tocCalls)
    /\ tocCalls[k].pc = "await"
    /\ LET outcome == generateTableOfContents(response)
           ok      == outcome.settled = "fulfilled"
           titles  == outcome.value[1]
       IN  /\ IF ok
              THEN /\ chapters' = [i \in 1..Len(titles) |->
                                      [title |-> titles[i], content |-> <<>>,
                                       status |-> "pending"]]
                   /\ frontCoverPrompt' = coverPrompt("F", tocCalls[k].title)
                   /\ backCoverPrompt' = coverPrompt("B", tocCalls[k].title)
                   /\ appStep' = "COVERS"
                   /\ error' = error
              ELSE /\ error' = TRUE
                   /\ UNCHANGED <<chapters, frontCoverPrompt, backCoverPrompt, appStep>>
           /\ tocCalls' = [tocCalls EXCEPT ![k].pc = IF ok THEN "applied" ELSE "failed"]
    /\ isLoading' = FALSE
    /\ UNCHANGED <<title, frontCoverImage, backCoverImage, bookVars, appMounted,
                   subtitle, author, description, topic, flagVars, ideaCalls,
                   bothCoverCalls, allRuns, requests,
                   continueFromPrevious>>
    /\ UNCHANGED <<viewerVars, envVars>>
    /\ persistEffects

\* handleGenerateBothCovers up to its await (lines 602-608)
handleGenerateBothCovers ==
    /\ onScreen("COVERS")
    /\ ~isGeneratingBothCovers           \* disabled={isGeneratingBothCovers}
    /\ Len(bothCoverCalls) < MaxBoth
    /\ IF frontCoverPrompt = <<>> \/ backCoverPrompt = <<>>
       THEN /\ error' = TRUE
            /\ UNCHANGED <<isGeneratingBothCovers, bothCoverCalls>>
       ELSE /\ isGeneratingBothCovers' = TRUE
            /\ bothCoverCalls' = Append(bothCoverCalls, [pc |-> "await"])
            /\ error' = error
    /\ UNCHANGED <<title, frontCoverImage, backCoverImage, isLoading, bookVars,
                   appMounted, formVars, isRandomizing, isGeneratingFrontCover,
                   isGeneratingBackCover, ideaCalls, tocCalls, chapterVars>>
    /\ UNCHANGED <<viewerVars, envVars>>
    /\ persistEffects

\* Promise.all of the two generateBookCover calls settled for the call k
\* (lines 609-619): both images, or the first rejection.
bothCoversSettle(k, ok) ==
    /\ k \in 1..Len(bothCoverCalls)
    /\ bothCoverCalls[k].pc = "await"
    /\ bothCoverCalls' = [bothCoverCalls EXCEPT ![k].pc = IF ok THEN "applied" ELSE "failed"]
    /\ IF ok
       THEN /\ frontCoverImage' = CoverData
            /\ backCoverImage' = CoverData
            /\ error' = error
       ELSE /\ error' = TRUE
            /\ UNCHANGED <<frontCoverImage, backCoverImage>>
    /\ isGeneratingBothCovers' = FALSE
    /\ IF showBookViewer
       THEN /\ RerenderProps(finalBookContent, frontCoverImage', backCoverImage')
            /\ UNCHANGED <<viewerInst, isExporting, exportMessage, isDropdownOpen>>
       ELSE UNCHANGED <<viewerVars, listeners>>
    /\ UNCHANGED <<title, isLoading, bookVars, appMounted, formVars, isRandomizing,
                   isGeneratingFrontCover, isGeneratingBackCover, ideaCalls,
                   tocCalls, chapterVars>>
    /\ UNCHANGED <<exports, downloads, alerts, objectURLs>>
    /\ persistEffects

\* The first chapter at or after index from that the loop of
\* handleGenerateAllChapters does not skip (lines 670-674), or 0.
firstTodo(cur, from) ==
    LET todo == {j \in from..Len(cur) : cur[j].status # "done"}
    IN  IF todo = {} THEN 0 ELSE CHOOSE j \in todo : \A k \in todo : j <= k

\* A request to generateChapterContent for chapter i that is in flight,
\* issued by the run by (0: by handleGenerateSingleChapter), with the
\* previousChapterContent it was given (<<>>: undefined or '', which line
\* 108 does not tell apart).
request(i, by, previousChapterContent) ==
    [chapter |-> i, by |-> by, previous |-> previousChapterContent]

\* prevContent of handleGenerateSingleChapter (lines 650-652): of the
\* chapters before chapterIndex, the last one that is done with content
prevContent(chs, i, continue) ==
    LET found == {j \in 1..(i - 1) : chs[j].status = "done" /\ chs[j].content # <<>>}
    IN  IF continue /\ i > 1 /\ found # {}
        THEN chs[CHOOSE j \in found : \A k \in found : k <= j].content
        ELSE <<>>

\* lastContent of handleGenerateAllChapters when its loop, at index i with
\* the value last, comes to the next chapter it does not skip or to the end
\* (lines 669-674)
RECURSIVE lastContent(_, _, _, _)
lastContent(cur, i, last, continue) ==
    IF i > Len(cur) \/ cur[i].status # "done" THEN last
    ELSE lastContent(cur, i + 1, IF continue THEN cur[i].content ELSE <<>>, continue)

\* The requests in flight without the one at position q, which settled
settled(reqs, q) == [j \in 1..(Len(reqs) - 1) |-> IF j < q THEN reqs[j] ELSE reqs[j + 1]]

\* handleGenerateSingleChapter(chapterIndex) up to its await (lines 647-656),
\* from the Generate button of a pending chapter or the Regenerate button of
\* a finished one (lines 810, 812)
handleGenerateSingleChapter(i) ==
    /\ onScreen("WRITING")
    /\ ~isLoading                        \* disabled={isLoading}
    /\ i \in 1..Len(chapters)
    /\ chapters[i].status \in {"pending", "done"}
    /\ Len(requests) < MaxRequests
    /\ chapters' = [chapters EXCEPT ![i].status = "generating"]
    /\ requests' = Append(requests,
                          request(i, 0, prevContent(chapters, i, continueFromPrevious)))
    /\ UNCHANGED <<title, frontCoverImage, backCoverImage, isLoading, error,
                   bookVars, appMounted, formVars, flagVars, callVars, allRuns,
                   continueFromPrevious>>
    /\ UNCHANGED <<viewerVars, envVars>>
    /\ persistEffects

\* generateChapterContent settled for the request q of a single-chapter call
\* (lines 657-661): functional updates of the chapter at its index, which
\* leave a list without that index as it is.
singleSettles(q, response) ==
    /\ q \in 1..Len(requests)
    /\ requests[q].by = 0
    /\ LET outcome == generateChapterContent(response)
           ok      == outcome.settled = "fulfilled"
           i       == requests[q].chapter
       IN  /\ chapters' =
                 [j \in 1..Len(chapters) |->
                     IF j # i THEN chapters[j]
                     ELSE IF ok THEN [chapters[j] EXCEPT !.status = "done",
                                                         !.content = outcome.value[1]]
                     ELSE [chapters[j] EXCEPT !.status = "pending"]]
           /\ error' = (IF ok THEN error ELSE TRUE)
    /\ requests' = settled(requests, q)
    /\ UNCHANGED <<title, frontCoverImage, backCoverImage, isLoading, bookVars,
                   appMounted, formVars, flagVars, callVars, allRuns,
                   continueFromPrevious>>
    /\ UNCHANGED <<viewerVars, envVars>>
    /\ persistEffects

\* A run of handleGenerateAllChapters that has returned
returned(pc) ==
    [currentChapters |-> <<>>, i |-> 0, pc |-> pc, continueFromPrevious |-> FALSE]

\* handleGenerateAllChapters up to its first await (lines 664-681), or to its
\* end when every chapter is skipped. currentChapters is the copy the call
\* keeps writing back with setChapters.
handleGenerateAllChapters ==
    /\ onScreen("WRITING")
    /\ ~(isLoading \/ isBookReady)       \* disabled={isLoading || isBookReady}
    /\ Len(allRuns) < MaxRuns
    /\ LET i == firstTodo(chapters, 1)
           currentChapters == [chapters EXCEPT ![i].status = "generating"]
       IN  IF i = 0
           THEN /\ isLoading' = FALSE
                /\ allRuns' = Append(allRuns, returned("done"))
                /\ UNCHANGED <<chapters, requests>>
           ELSE /\ Len(requests) < MaxRequests
                /\ isLoading' = TRUE
                /\ chapters' = currentChapters
                /\ requests' = Append(requests,
                      request(i, Len(allRuns) + 1,
                              lastContent(chapters, 1, <<>>, continueFromPrevious)))
                /\ allRuns' = Append(allRuns,
                      [currentChapters |-> currentChapters, i |-> i, pc |-> "await",
                       continueFromPrevious |-> continueFromPrevious])
    /\ error' = FALSE
    /\ UNCHANGED <<title, frontCoverImage, backCoverImage, bookVars, appMounted,
                   formVars, isRandomizing, isGeneratingFrontCover,
                   isGeneratingBackCover, isGeneratingBothCovers, callVars,
                   continueFromPrevious>>
    /\ UNCHANGED <<viewerVars, envVars>>
    /\ persistEffects

\* generateChapterContent settled for the run r (lines 682-693): the chapter
\* is written into currentChapters and the loop goes on to the next chapter
\* it does not skip, or the run stops at the failure.
runSettles(r, response) ==
    /\ r \in 1..Len(allRuns)
    /\ allRuns[r].pc = "await"
    /\ LET run     == allRuns[r]
           q       == CHOOSE j \in 1..Len(requests) : requests[j].by = r
           outcome == generateChapterContent(response)
           ok      == outcome.settled = "fulfilled"
           written == IF ok
                      THEN [run.currentChapters EXCEPT
                              ![run.i] = [@ EXCEPT !.status = "done",
                                                   !.content = outcome.value[1]]]
                      ELSE [run.currentChapters EXCEPT ![run.i].status = "pending"]
           next    == IF ok THEN firstTodo(written, run.i + 1) ELSE 0
           started == [written EXCEPT ![next].status = "generating"]
       IN  IF next = 0
           THEN /\ chapters' = written
                /\ isLoading' = FALSE
                /\ error' = (IF ok THEN error ELSE TRUE)
                /\ requests' = settled(requests, q)
                /\ allRuns' = [allRuns EXCEPT
                                 ![r] = returned(IF ok THEN "done" ELSE "failed")]
           ELSE /\ chapters' = started
                /\ UNCHANGED <<isLoading, error>>
                /\ requests' = Append(settled(requests, q),
                      request(next, r,
                              lastContent(written, run.i + 1,
                                          IF run.continueFromPrevious
                                          THEN outcome.value[1] ELSE <<>>,
                                          run.continueFromPrevious)))
                /\ allRuns' = [allRuns EXCEPT
                                 ![r] = [run EXCEPT !.currentChapters = started,
                                                    !.i = next]]
    /\ UNCHANGED <<title, frontCoverImage, backCoverImage, bookVars, appMounted,
                   formVars, isRandomizing, isGeneratingFrontCover,
                   isGeneratingBackCover, isGeneratingBothCovers, callVars,
                   continueFromPrevious>>
    /\ UNCHANGED <<viewerVars, envVars>>
    /\ persistEffects

\* The checkbox 'Maintain continuity between chapters' (line 803)
setContinueFromPrevious(checked) ==
    /\ onScreen("WRITING")
    /\ checked # continueFromPrevious
    /\ continueFromPrevious' = checked
    /\ UNCHANGED <<title, frontCoverImage, backCoverImage, isLoading, error,
                   bookVars, appMounted, formVars, flagVars, callVars,
                   chapters, allRuns, requests>>
    /\ UNCHANGED <<viewerVars, envVars>>
    /\ persistEffects

\* Text typed into the textarea of a finished chapter.
EditedContent == <<"e">>

\* handleChapterContentChange(index, newContent) (line 638), from the
\* textarea of an expanded chapter (line 815)
handleChapterContentChange(i, newContent) ==
    /\ onScreen("WRITING")
    /\ i \in 1..Len(chapters)
    /\ chapters[i].status = "done"       \* Read/Edit is offered for 'done'
    /\ chapters[i].content # newContent
    /\ chapters' = [chapters EXCEPT ![i].content = newContent]
    /\ UNCHANGED <<title, frontCoverImage, backCoverImage, isLoading, error,
                   bookVars, appMounted, formVars, flagVars, callVars,
                   allRuns, requests,
                   continueFromPrevious>>
    /\ UNCHANGED <<viewerVars, envVars>>
    /\ persistEffects

\* A title typed into the title input of a chapter.
EditedTitle == <<"t">>

\* handleChapterTitleChange(index, newTitle) (line 637), from the title
\* input of a chapter, which every chapter shows (line 808)
handleChapterTitleChange(i, newTitle) ==
    /\ onScreen("WRITING")
    /\ i \in 1..Len(chapters)
    /\ chapters[i].title # newTitle
    /\ chapters' = [chapters EXCEPT ![i].title = newTitle]
    /\ UNCHANGED <<title, frontCoverImage, backCoverImage, isLoading, error,
                   bookVars, appMounted, formVars, flagVars, callVars,
                   allRuns, requests, continueFromPrevious>>
    /\ UNCHANGED <<viewerVars, envVars>>
    /\ persistEffects

\* handleClearBook, confirmed (lines 503-536). The calls that are awaiting
\* go on.
handleClearBook ==
    /\ onScreen("WRITING")
    /\ appStep' = "CONFIG"
    /\ title' = <<>>
    /\ subtitle' = <<>>
    /\ author' = <<>>
    /\ description' = <<>>
    /\ isRandomizing' = FALSE
    /\ chapters' = <<>>
    /\ isLoading' = FALSE
    /\ error' = FALSE
    /\ showBookViewer' = FALSE
    /\ finalBookContent' = <<>>
    /\ currentBook' = NoTitle
    /\ frontCoverPrompt' = <<>>
    /\ backCoverPrompt' = <<>>
    /\ frontCoverImage' = NoCover
    /\ backCoverImage' = NoCover
    /\ isGeneratingFrontCover' = FALSE
    /\ isGeneratingBackCover' = FALSE
    /\ isGeneratingBothCovers' = FALSE
    /\ continueFromPrevious' = TRUE
    /\ UNCHANGED <<bookHistory, assembleCalls, coverCalls, clock, appMounted,
                   topic, callVars, allRuns, requests>>
    /\ UNCHANGED <<viewerVars, envVars>>
    /\ persistEffects

----------------------------------------------------------------------------
(* SpecWrite: a book from the idea to the assembled text *)

InitWrite ==
    /\ Idle
    /\ appStep = "CONFIG"
    /\ chapters = <<>>
    /\ frontCoverPrompt = <<>>
    /\ backCoverPrompt = <<>>
    /\ bookHistory = <<>>
    /\ finalBookContent = <<>>
    /\ frontCoverImage = NoCover
    /\ backCoverImage = NoCover
    /\ localStorage = persistOnMount(bookData, bookHistory)

NextWrite ==
    \/ handleRandomizeBookSettings
    \/ \E k \in 1..MaxIdeas, response \in IdeaResponses : ideaSettles(k, response)
    \/ handleGenerateToc
    \/ \E k \in 1..MaxTocs, response \in TocResponses : tocSettles(k, response)
    \/ \E step \in {"CONFIG", "COVERS", "WRITING"} : setAppStep(step)
    \/ \E type \in {"front", "back"} : handleGenerateCover(type)
    \/ \E type \in {"front", "back"} : generateCoverResolved(type)
    \/ \E type \in {"front", "back"} : generateCoverRejected(type)
    \/ handleGenerateBothCovers
    \/ \E k \in 1..MaxBoth, ok \in BOOLEAN : bothCoversSettle(k, ok)
    \/ \E i \in 1..Len(TocTitles) : handleGenerateSingleChapter(i)
    \/ \E q \in 1..MaxRequests, response \in ChapterResponses : singleSettles(q, response)
    \/ handleGenerateAllChapters
    \/ \E r \in 1..MaxRuns, response \in ChapterResponses : runSettles(r, response)
    \/ handleClearBook
    \/ handleAssembleBook
    \/ \E fullBook \in ExportDocs : assembleResolved(fullBook)
    \/ assembleRejected
    \/ onClose

SpecWrite == InitWrite /\ [][NextWrite]_vars

----------------------------------------------------------------------------
(* SpecChapters: the writing screen of a book of two chapters *)

\* Chapter lists of a saved book: nothing written, and the second chapter
\* written.
SavedChapters ==
    { <<[title |-> <<"1">>, content |-> <<>>, status |-> "pending"],
        [title |-> <<"2">>, content |-> <<>>, status |-> "pending"]>>,
      <<[title |-> <<"1">>, content |-> <<>>, status |-> "pending"],
        [title |-> <<"2">>, content |-> <<"x">>, status |-> "done"]>> }

\* The App after its load effect read a saved book (lines 460-476)
InitChapters ==
    /\ Idle
    /\ appStep = "WRITING"
    /\ chapters \in SavedChapters
    /\ frontCoverPrompt = <<"F">>
    /\ backCoverPrompt = <<"B">>
    /\ bookHistory = <<>>
    /\ finalBookContent = <<>>
    /\ frontCoverImage = NoCover
    /\ backCoverImage = NoCover
    /\ localStorage = persistOnMount(bookData, bookHistory)

NextChapters ==
    \/ \E i \in 1..2 : handleGenerateSingleChapter(i)
    \/ \E q \in 1..MaxRequests, response \in ChapterResponses : singleSettles(q, response)
    \/ handleGenerateAllChapters
    \/ \E r \in 1..MaxRuns, response \in ChapterResponses : runSettles(r, response)
    \/ \E i \in 1..2 : handleChapterContentChange(i, EditedContent)
    \/ \E i \in 1..2 : handleChapterTitleChange(i, EditedTitle)

SpecChapters == InitChapters /\ [][NextChapters]_vars

----------------------------------------------------------------------------
(* SpecContinuity: three chapters, written with and without continuity *)

\* Chapter lists of a saved book of three chapters: the first written, the
\* second written or not, the third not.
ContinuityChapters ==
    { <<[title |-> <<"1">>, content |-> LongText("a"), status |-> "done"],
        [title |-> <<"2">>, content |-> c, status |-> IF c = <<>> THEN "pending" ELSE "done"],
        [title |-> <<"3">>, content |-> <<>>, status |-> "pending"]>> :
        c \in {<<>>, LongText("b")} }

\* The App after its load effect read a saved book (lines 460-476)
InitContinuity ==
    /\ Idle
    /\ appStep = "WRITING"
    /\ chapters \in ContinuityChapters
    /\ frontCoverPrompt = <<"F">>
    /\ backCoverPrompt = <<"B">>
    /\ bookHistory = <<>>
    /\ finalBookContent = <<>>
    /\ frontCoverImage = NoCover
    /\ backCoverImage = NoCover
    /\ localStorage = persistOnMount(bookData, bookHistory)

NextContinuity ==
    \/ \E checked \in BOOLEAN : setContinueFromPrevious(checked)
    \/ \E i \in 1..3 : handleGenerateSingleChapter(i)
    \/ \E q \in 1..MaxRequests, response \in ChapterResponses : singleSettles(q, response)
    \/ handleGenerateAllChapters
    \/ \E r \in 1..MaxRuns, response \in ChapterResponses : runSettles(r, response)
    \/ \E i \in 1..3, newContent \in {<<>>, EditedContent} :
          handleChapterContentChange(i, newContent)

SpecContinuity == InitContinuity /\ [][NextContinuity]_vars

----------------------------------------------------------------------------
(* SpecLoad: the mount of the App over a store left by an earlier session    *)
(* (geminiService.ts:460-501).                                               *)

\* The in-progress state of the initial render (lines 418-455)
InitialData ==
    [appStep |-> "CONFIG", title |-> <<>>, subtitle |-> <<>>, author |-> <<>>,
     description |-> <<>>, chapters |-> <<>>,
     frontCoverImage |-> NoCover, backCoverImage |-> NoCover,
     frontCoverPrompt |-> <<>>, backCoverPrompt |-> <<>>]

\* In-progress books an earlier session stored.
SavedBooks ==
    { [InitialData EXCEPT !.appStep = step, !.title = t, !.chapters = ch,
                          !.frontCoverPrompt = <<"F">>, !.frontCoverImage = CoverData] :
        step \in {"CONFIG", "COVERS", "WRITING"}, t \in Titles,
        ch \in {<<>>} \cup SavedChapters }

\* What the store may hold under 'robo-ai-book-progress': nothing, text that
\* is not JSON, null, a stored book, and a book object that lacks keys.
ProgressItems ==
    {NoItem, Garbage, JsonNull}
        \cup {[stringify(b) EXCEPT !.missing = m] :
                b \in SavedBooks, m \in {{}, {"appStep"}, {"appStep", "chapters"}}}

\* What the store may hold under 'robo-ai-book-history'.
SavedEntry ==
    [id |-> 1, title |-> <<"A", "-", "1", "!">>, assembledContent |-> DocShort,
     frontCoverImage |-> NoCover, backCoverImage |-> NoCover]

HistoryItems == {NoItem, Garbage, stringify(<<>>), stringify(<<SavedEntry>>)}

\* data.<key> || fallback
orElse(item, key, fallback) ==
    IF key \in item.missing THEN fallback ELSE parse(item)[key]

\* The load effect (lines 460-489) over a store: whether its try block threw,
\* and the state its setters leave for the next render. The setters called
\* before the throw have taken effect.
loadEffect(store) ==
    LET p == store.progress
        h == store.history
        read == p.kind # "none"                     \* if (savedBook)
        data == IF ~read \/ ~parses(p) \/ p.kind = "null" THEN InitialData
                ELSE LET upToChapters ==
                             [InitialData EXCEPT
                                !.title = orElse(p, "title", <<>>),
                                !.subtitle = orElse(p, "subtitle", <<>>),
                                !.author = orElse(p, "author", <<>>),
                                !.description = orElse(p, "description", <<>>),
                                !.chapters = orElse(p, "chapters", <<>>)]
                     IN  IF {"appStep", "chapters"} \subseteq p.missing
                         THEN upToChapters          \* data.chapters.length throws
                         ELSE [upToChapters EXCEPT
                                 !.appStep = orElse(p, "appStep",
                                                    IF upToChapters.chapters # <<>>
                                                    THEN "WRITING" ELSE "CONFIG"),
                                 !.frontCoverImage = orElse(p, "frontCoverImage", NoCover),
                                 !.backCoverImage = orElse(p, "backCoverImage", NoCover),
                                 !.frontCoverPrompt = orElse(p, "frontCoverPrompt", <<>>),
                                 !.backCoverPrompt = orElse(p, "backCoverPrompt", <<>>)]
        progressThrew == read /\ ( \/ ~parses(p)
                                   \/ p.kind = "null"
                                   \/ {"appStep", "chapters"} \subseteq p.missing )
        historyThrew  == ~progressThrew /\ h.kind # "none" /\ ~parses(h)
        history == IF progressThrew \/ h.kind # "json" THEN <<>> ELSE parse(h)
    IN  [threw |-> progressThrew \/ historyThrew, data |-> data, history |-> history]

\* The first render of the App and its effects: the load effect, the persist
\* effects over the initial state, and the persist effects of the render
\* that follows with the state the load effect set.
AppMount ==
    /\ ~appMounted
    /\ appMounted' = TRUE
    /\ LET loaded == loadEffect(localStorage)
       IN  /\ appStep' = loaded.data.appStep
           /\ title' = loaded.data.title
           /\ subtitle' = loaded.data.subtitle
           /\ author' = loaded.data.author
           /\ description' = loaded.data.description
           /\ chapters' = loaded.data.chapters
           /\ frontCoverImage' = loaded.data.frontCoverImage
           /\ backCoverImage' = loaded.data.backCoverImage
           /\ frontCoverPrompt' = loaded.data.frontCoverPrompt
           /\ backCoverPrompt' = loaded.data.backCoverPrompt
           /\ bookHistory' = loaded.history
    /\ UNCHANGED <<isLoading, error, showBookViewer, finalBookContent, currentBook,
                   assembleCalls, coverCalls, clock, topic, flagVars, callVars,
                   allRuns, requests,
                   continueFromPrevious>>
    /\ UNCHANGED <<viewerVars, envVars>>
    /\ localStorage' = persistOnMount(bookData', bookHistory')

InitLoad ==
    /\ appMounted = FALSE
    /\ InitialState
    /\ appStep = "CONFIG"
    /\ chapters = <<>>
    /\ frontCoverPrompt = <<>>
    /\ backCoverPrompt = <<>>
    /\ bookHistory = <<>>
    /\ finalBookContent = <<>>
    /\ frontCoverImage = NoCover
    /\ backCoverImage = NoCover
    /\ localStorage \in [progress : ProgressItems, history : HistoryItems]

NextLoad == AppMount

SpecLoad == InitLoad /\ [][NextLoad]_vars

----------------------------------------------------------------------------
(* SpecVariant: the persisted progress of the second App of the file         *)
(* (geminiService.ts:859-1356), whose book has a topic in place of a title.  *)
(* Its form inputs without a reader in the model (numChapters, wordCount,    *)
(* bookType) are left out.                                                   *)

\* The object the progress effect of the variant serializes (lines 931-934)
bookDataVariant ==
    [appStep |-> appStep, topic |-> topic, chapters |-> chapters,
     frontCoverImage |-> frontCoverImage, backCoverImage |-> backCoverImage,
     frontCoverPrompt |-> frontCoverPrompt, backCoverPrompt |-> backCoverPrompt]

\* if (appStep !== 'CONFIG' || topic || chapters.length > 0) (line 930)
progressWritten(step, t, ch) == step # "CONFIG" \/ t # <<>> \/ ch # <<>>

\* The two persist effects of the variant after a render (lines 929-941)
persistEffectsVariant ==
    localStorage' =
        [progress |-> IF bookDataVariant' # bookDataVariant
                         /\ progressWritten(appStep', topic', chapters')
                      THEN stringify(bookDataVariant') ELSE localStorage.progress,
         history  |-> IF bookHistory' # bookHistory
                      THEN stringify(bookHistory') ELSE localStorage.history]

\* The state that the handlers of the variant in the model leave alone.
variantRest == <<title, isLoading, error, bookVars, appMounted, subtitle, author,
                 description, flagVars, callVars, allRuns, requests,
                   continueFromPrevious>>

\* <input id="topic" onChange={e => setTopic(e.target.value)}> (line 1171)
handleTopicChange(t) ==
    /\ appMounted /\ onScreen("CONFIG")
    /\ t # topic
    /\ topic' = t
    /\ UNCHANGED <<appStep, chapters, frontCoverImage, backCoverImage,
                   frontCoverPrompt, backCoverPrompt>>
    /\ UNCHANGED <<variantRest, viewerVars, envVars>>
    /\ persistEffectsVariant

\* The three navigation buttons of the variant (lines 1233, 1234, 1249)
setAppStepVariant(step) ==
    /\ appMounted
    /\ \/ onScreen("COVERS") /\ step \in {"CONFIG", "WRITING"}
       \/ onScreen("WRITING") /\ step = "COVERS"
    /\ appStep' = step
    /\ UNCHANGED <<topic, chapters, frontCoverImage, backCoverImage,
                   frontCoverPrompt, backCoverPrompt>>
    /\ UNCHANGED <<variantRest, viewerVars, envVars>>
    /\ persistEffectsVariant

\* handleClearBook of the variant, confirmed (lines 943-961): the item is
\* removed in the handler, the effects run after the render that follows.
handleClearBookVariant ==
    /\ appMounted /\ onScreen("WRITING")
    /\ topic' = <<>>
    /\ chapters' = <<>>
    /\ appStep' = "CONFIG"
    /\ frontCoverImage' = NoCover
    /\ backCoverImage' = NoCover
    /\ frontCoverPrompt' = <<>>
    /\ backCoverPrompt' = <<>>
    /\ UNCHANGED <<variantRest, viewerVars, envVars>>
    /\ localStorage' =
          [progress |-> IF progressWritten(appStep', topic', chapters')
                        THEN stringify(bookDataVariant') ELSE NoItem,
           history  |-> localStorage.history]

\* Topics typed into the form.
Topics == {<<>>, <<"t">>, <<"t", "o">>}

\* In-progress books an earlier session of the variant stored: the effect
\* stores no book for which its condition is false.
SavedVariantBooks ==
    { b \in [appStep : {"CONFIG", "COVERS", "WRITING"}, topic : Topics,
             chapters : {<<>>} \cup SavedChapters,
             frontCoverImage : {NoCover}, backCoverImage : {NoCover},
             frontCoverPrompt : {<<>>, <<"F">>}, backCoverPrompt : {<<"B">>}] :
        progressWritten(b.appStep, b.topic, b.chapters) }

\* The first render of the variant and its effects over a store that holds
\* no item or well-formed ones (lines 902-941): the load effect, the persist
\* effects over the initial state, of which only the history effect writes,
\* and the persist effects of the render that follows.
AppMountVariant ==
    /\ ~appMounted
    /\ appMounted' = TRUE
    /\ LET p == localStorage.progress
           data == parse(p)
       IN  IF p.kind = "json"
           THEN /\ topic' = data.topic
                /\ chapters' = data.chapters
                /\ appStep' = data.appStep
                /\ frontCoverImage' = data.frontCoverImage
                /\ backCoverImage' = data.backCoverImage
                /\ frontCoverPrompt' = (IF data.frontCoverPrompt # <<>>
                                        THEN data.frontCoverPrompt
                                        ELSE coverPrompt("F", data.topic))
                /\ backCoverPrompt' = (IF data.backCoverPrompt # <<>>
                                       THEN data.backCoverPrompt
                                       ELSE coverPrompt("B", data.topic))
           ELSE UNCHANGED <<topic, chapters, appStep, frontCoverImage,
                            backCoverImage, frontCoverPrompt, backCoverPrompt>>
    /\ bookHistory' = (IF localStorage.history.kind = "json"
                       THEN parse(localStorage.history) ELSE bookHistory)
    /\ UNCHANGED <<title, isLoading, error, showBookViewer, finalBookContent,
                   currentBook, assembleCalls, coverCalls, clock, subtitle, author,
                   description, flagVars, callVars, allRuns, requests,
                   continueFromPrevious>>
    /\ UNCHANGED <<viewerVars, envVars>>
    /\ localStorage' =
          [progress |-> IF bookDataVariant' # bookDataVariant
                           /\ progressWritten(appStep', topic', chapters')
                        THEN stringify(bookDataVariant') ELSE localStorage.progress,
           history  |-> stringify(bookHistory')]

InitVariant ==
    /\ appMounted = FALSE
    /\ InitialState
    /\ appStep = "CONFIG"
    /\ chapters = <<>>
    /\ frontCoverPrompt = <<>>
    /\ backCoverPrompt = <<>>
    /\ bookHistory = <<>>
    /\ finalBookContent = <<>>
    /\ frontCoverImage = NoCover
    /\ backCoverImage = NoCover
    /\ localStorage \in [progress : {NoItem} \cup {stringify(b) : b \in SavedVariantBooks},
                         history : {NoItem, stringify(<<SavedEntry>>)}]

NextVariant ==
    \/ AppMountVariant
    \/ \E t \in Topics : handleTopicChange(t)
    \/ \E step \in {"CONFIG", "COVERS", "WRITING"} : setAppStepVariant(step)
    \/ handleClearBookVariant

SpecVariant == InitVariant /\ [][NextVariant]_vars

----------------------------------------------------------------------------
(* SpecSlug: createSlug as a function of the title. A book of the history   *)
(* with any title over SlugAlphabet is read and exported as Markdown.       *)

\* Longest title enumerated for createSlug.
MaxTitleLen == 4

\* An upper-case and a lower-case letter, a digit, the separator itself and
\* two other characters outside [a-z0-9].
SlugAlphabet == {"A", "b", "1", "-", " ", "!"}

SlugTitles == UNION {[1..k -> SlugAlphabet] : k \in 0..MaxTitleLen}

InitSlug ==
    /\ Idle
    /\ appStep = "CONFIG"
    /\ chapters = <<>>
    /\ frontCoverPrompt = <<>>
    /\ backCoverPrompt = <<>>
    /\ finalBookContent = <<>>
    /\ frontCoverImage = NoCover
    /\ backCoverImage = NoCover
    /\ \E t \in SlugTitles :
          bookHistory = <<[id |-> 1, title |-> t, assembledContent |-> DocShort,
                           frontCoverImage |-> NoCover,
                           backCoverImage |-> NoCover]>>
    /\ localStorage = persistOnMount(bookData, bookHistory)

NextSlug ==
    \/ handleReadFromHistory(1)
    \/ ToggleDropdown
    \/ handleExport("md")
    \/ exportAfterTimeout(1, TRUE)

SpecSlug == InitSlug /\ [][NextSlug]_vars

----------------------------------------------------------------------------
(* Claims about the paginator (checked under SpecPaginate) *)

\* C1 (as stated): for every document D, concatenating the text of all
\* non-image pages in order yields exactly D. (The non-image pages are
\* taken here to be the pages that are not inserted covers.)
C1_LosslessAsStated ==
    Paginated => flatten(TextPages) = finalBookContent

\* C1 (amended): for every document D that has a non-whitespace character,
\* concatenating in order the pages other than the inserted cover pages
\* yields D without its first section when that section is white space
\* only, and exactly D otherwise; for a document without any non-whitespace
\* character the only such page is the fallback page.
C1_Lossless ==
    Paginated =>
        flatten(TextPages) =
            IF HasText(finalBookContent)
            THEN WithoutBlankLead(finalBookContent)
            ELSE FALLBACK_PAGE

\* A document whose blank first section is dropped and whose remaining
\* section is split over several pages.
C1_Witness ==
    /\ Paginated
    /\ HasText(finalBookContent)
    /\ WithoutBlankLead(finalBookContent) # finalBookContent
    /\ Len(TextPages) >= 2

\* C2: pagination is total: every document and every combination of covers
\* gives at least one page, and the empty document without covers gives
\* exactly one page, the fallback page, whose text is not empty.
C2_Total ==
    Paginated =>
        /\ Len(pages) >= 1
        /\ (finalBookContent = <<>> /\ NCovers = 0) =>
              /\ Len(pages) = 1
              /\ pages[1] = FALLBACK_PAGE
              /\ Len(pages[1]) > 0

\* The empty document, paginated without covers.
C2_Witness ==
    /\ Paginated
    /\ finalBookContent = <<>>
    /\ NCovers = 0

C4_NoMarkerAsStated ==
    (Paginated /\ ~HasMarker(finalBookContent) /\ NCovers = 0) =>
        IF Len(finalBookContent) <= CHARS_PER_PAGE
        THEN pages = <<finalBookContent>>
        ELSE pages = paginateSection(finalBookContent, 0)

\* C4 (amended): the same for every such document that has a
\* non-whitespace character (a document of white space only, the empty
\* one included, gives the fallback page instead).
C4_NoMarker ==
    (Paginated /\ ~HasMarker(finalBookContent) /\ NCovers = 0
               /\ HasText(finalBookContent)) =>
        IF Len(finalBookContent) <= CHARS_PER_PAGE
        THEN pages = <<finalBookContent>>
        ELSE pages = paginateSection(finalBookContent, 0)

\* A document longer than a page with "## " inside a line but at no line
\* start, split into several pages.
C4_Witness ==
    /\ Paginated
    /\ ~HasMarker(finalBookContent)
    /\ NCovers = 0
    /\ \E q \in 1..Len(finalBookContent) :
          /\ q + 3 <= Len(finalBookContent)
          /\ SubSeq(finalBookContent, q + 1, q + 3) = <<"#", "#", " ">>
    /\ Len(finalBookContent) > CHARS_PER_PAGE
    /\ Len(pages) >= 2

\* C5: a supplied front cover is exactly one image page, the first page; a
\* supplied back cover is exactly one image page, the last page; every page
\* between them is a text page, in document order; and totalPages is the
\* number of text pages plus the number of covers supplied.
C5_CoverPlacement ==
    Paginated =>
        /\ frontCoverImage # NoCover => rendersAsImage(pages[1])
        /\ backCoverImage # NoCover => rendersAsImage(pages[Len(pages)])
        /\ TextPages = generatedPages(finalBookContent)
        /\ \A k \in 1..Len(TextPages) : ~rendersAsImage(TextPages[k])
        /\ Len(pages) = Len(NonImagePages) + NCovers

----------------------------------------------------------------------------
(* Claims about the open viewer (checked under Spec) *)

\* C6: in every reachable state of the open viewer the current page index
\* satisfies 0 <= currentPage <= totalPages - 1, after any sequence of
\* Next/Previous clicks, arrow keys and recomputations of the page list.
C6_PageInRange ==
    showBookViewer =>
        /\ 0 <= currentPage
        /\ currentPage <= Len(pages) - 1

\* C7: an ArrowLeft key press while the index is 0 leaves the index 0, an
\* ArrowRight key press while the index is the last index leaves it
\* unchanged, and any other arrow press changes the index by exactly one.
C7_KeyboardBounds ==
    showBookViewer =>
        LET last == Len(pages) - 1
        IN  /\ pageAfterKey("ArrowLeft") =
                   (IF currentPage = 0 THEN 0 ELSE currentPage - 1)
            /\ pageAfterKey("ArrowRight") =
                   (IF currentPage = last THEN currentPage ELSE currentPage + 1)

\* C8: the keydown listener is registered only while the viewer is open:
\* at every moment at most one is registered, and none while the viewer is
\* closed.
C8_SingleListener ==
    /\ Len(listeners) <= 1
    /\ ~showBookViewer => listeners = <<>>
    /\ showBookViewer => listeners = <<curHandler>>

\* The viewer has been opened a second time and closed again.
C8_Witness ==
    /\ ~showBookViewer
    /\ viewerInst >= 2
    /\ listeners = <<>>

----------------------------------------------------------------------------
(* Claims about export (checked under SpecExport) *)

\* The handleExport calls whose finally block has not run yet.
InFlight == {e \in 1..Len(exports) : exports[e].pc # "done"}

DownloadsOf(e) == SelectSeq(downloads, LAMBDA d : d.export = e)

AlertsOf(e) == SelectSeq(alerts, LAMBDA a : a = e)

\* The extension the claim gives each format.
ExpectedExt(format) ==
    CASE format = "pdf"  -> <<"p", "d", "f">>
      [] format = "docx" -> <<"d", "o", "c", "x">>
      [] format = "html" -> <<"h", "t", "m", "l">>
      [] format = "md"   -> <<"m", "d">>

\* C9: at most one export is in flight at any moment: between the start of
\* handleExport and the run of its finally block the user cannot start a
\* second export, also not by closing the viewer and opening it again.
C9_SingleExport == Cardinality(InFlight) <= 1

\* C10: every export in which no collaborator throws, in any of the four
\* formats, completes without the failure notice and triggers exactly one
\* download, named <slug of title>.<ext> with ext the format's extension;
\* and no export ever triggers more than one download.
C10_ExportDownloads ==
    \A e \in 1..Len(exports) :
        /\ Len(DownloadsOf(e)) <= 1
        /\ (exports[e].pc = "done" /\ ~exports[e].threw) =>
              /\ Len(AlertsOf(e)) = 0
              /\ Len(DownloadsOf(e)) = 1
              /\ DownloadsOf(e)[1].name =
                     createSlug(exports[e].title) \o <<".">>
                         \o ExpectedExt(exports[e].format)

\* A PDF export of a book with a cover and a DOCX export, both completed
\* with their downloads.
C10_Witness ==
    /\ \E e \in 1..Len(exports) :
          /\ exports[e].format = "pdf"
          /\ exports[e].pc = "done" /\ ~exports[e].threw
          /\ Len(exports[e].pages) >= 3
    /\ \E e \in 1..Len(exports) :
          /\ exports[e].format = "docx"
          /\ exports[e].pc = "done" /\ ~exports[e].threw
    /\ Len(downloads) = 2

\* C11: when a step of an export throws, the export shows exactly one
\* failure notice, triggers no download, and ends with isExporting false
\* and the export message cleared in the viewer that started it.
C11_ExportFailure ==
    [][\A e \in 1..Len(exports') :
          (exports'[e].pc = "done" /\ exports'[e].threw) =>
              /\ Len(SelectSeq(alerts', LAMBDA a : a = e)) = 1
              /\ Len(SelectSeq(downloads', LAMBDA d : d.export = e)) = 0
              /\ (e \in InFlight /\ mounted(exports[e].inst)) =>
                    /\ isExporting' = FALSE
                    /\ exportMessage' = <<>>]_vars

\* A PDF export that threw after its first page, in the viewer that is
\* still open.
C11_Witness ==
    \E e \in 1..Len(exports) :
        /\ exports[e].format = "pdf"
        /\ exports[e].pc = "done" /\ exports[e].threw
        /\ exports[e].i >= 1
        /\ mounted(exports[e].inst)
        /\ ~isExporting
        /\ Len(AlertsOf(e)) = 1

\* C12: every object URL created for a download is revoked after the anchor
\* click: once an export has finished, no object URL created by it is live.
C12_UrlsRevoked ==
    \A e \in 1..Len(exports) : exports[e].pc = "done" => e \notin objectURLs

\* A DOCX export that went through saveAs and triggered its download.
C12_Witness ==
    \E e \in 1..Len(exports) :
        /\ exports[e].format = "docx"
        /\ exports[e].pc = "done" /\ ~exports[e].threw
        /\ Len(DownloadsOf(e)) = 1
        /\ objectURLs = {}

\* C19: every step of an export, in any format, successful or failed,
\* leaves the document, the computed page list and the current page index
\* unchanged.
C19_ExportFrame ==
    [][exports' # exports =>
          /\ finalBookContent' = finalBookContent
          /\ pages' = pages
          /\ currentPage' = currentPage]_vars

\* A failed and a successful export have both finished in the open viewer
\* while it shows a page other than the first.
C19_Witness ==
    /\ showBookViewer
    /\ currentPage >= 1
    /\ \E e \in 1..Len(exports) :
          exports[e].pc = "done" /\ exports[e].threw /\ mounted(exports[e].inst)
    /\ \E e \in 1..Len(exports) :
          exports[e].pc = "done" /\ ~exports[e].threw /\ mounted(exports[e].inst)

----------------------------------------------------------------------------
(* Claims about createSlug (checked under SpecSlug) *)

IsAlnum(c) ==
    c \in {"a", "b", "c", "d", "e", "f", "g", "h", "i", "j", "k", "l", "m",
           "n", "o", "p", "q", "r", "s", "t", "u", "v", "w", "x", "y", "z",
           "0", "1", "2", "3", "4", "5", "6", "7", "8", "9"}

\* The lowercased title with each maximal run of characters outside
\* [a-z0-9] replaced by one separator.
RunsCollapsed(t) ==
    LET l   == [i \in 1..Len(t) |-> toLowerCase(t[i])]
        idx == [i \in 1..Len(t) |-> i]
        sel == SelectSeq(idx, LAMBDA i : IsAlnum(l[i]) \/ i = 1 \/ IsAlnum(l[i - 1]))
    IN  [k \in 1..Len(sel) |-> IF IsAlnum(l[sel[k]]) THEN l[sel[k]] ELSE "-"]

\* s without a separator at its start and without one at its end.
EndsTrimmed(s) ==
    LET from == IF s # <<>> /\ s[1] = "-" THEN 2 ELSE 1
        to   == IF Len(s) >= from /\ s[Len(s)] = "-" THEN Len(s) - 1 ELSE Len(s)
    IN  SubSeq(s, from, to)

\* Only [a-z0-9] and '-', no separator first or last, no two adjacent.
SlugShaped(s) ==
    /\ \A i \in 1..Len(s) : IsAlnum(s[i]) \/ s[i] = "-"
    /\ s # <<>> => (s[1] # "-" /\ s[Len(s)] # "-")
    /\ \A i \in 1..(Len(s) - 1) : ~(s[i] = "-" /\ s[i + 1] = "-")

\* C13 (as stated): createSlug returns the lowercased title with each
\* maximal run of characters outside [a-z0-9] replaced by one separator;
\* the result contains only [a-z0-9] and '-', never starts or ends with a
\* separator, never has two adjacent separators; createSlug is idempotent.
C13_SlugAsStated ==
    \A e \in 1..Len(exports) :
        /\ exports[e].slug = RunsCollapsed(exports[e].title)
        /\ SlugShaped(exports[e].slug)
        /\ createSlug(exports[e].slug) = exports[e].slug

\* C13 (amended): createSlug returns the lowercased title with each maximal
\* run of characters outside [a-z0-9] replaced by one separator and then a
\* separator at the start and one at the end removed; the result contains
\* only [a-z0-9] and '-', never starts or ends with a separator, never has
\* two adjacent separators; createSlug is idempotent.
C13_Slug ==
    \A e \in 1..Len(exports) :
        /\ exports[e].slug = EndsTrimmed(RunsCollapsed(exports[e].title))
        /\ SlugShaped(exports[e].slug)
        /\ createSlug(exports[e].slug) = exports[e].slug

\* A title with an upper-case letter and runs outside [a-z0-9] at its start
\* and inside, exported to a file named after the slug.
C13_Witness ==
    \E e \in 1..Len(exports) :
        /\ exports[e].pc = "done"
        /\ exports[e].title = <<"!", "A", " ", "b">>
        /\ exports[e].slug = <<"a", "-", "b">>
        /\ Len(DownloadsOf(e)) = 1

----------------------------------------------------------------------------
(* Claims about the generation of chapters (checked under SpecChapters) *)

\* C14: chapter generation requests are issued one after the other in
\* increasing chapter order, each after the one before it has completed: no
\* two requests to generateChapterContent are in flight at the same time.
C14_OneRequestInFlight == Len(requests) <= 1

\* C15: when the request for chapter i of a run of handleGenerateAllChapters
\* is rejected, an error is shown, chapter i is 'pending' again, the run has
\* no request in flight, and every chapter after i keeps the status and the
\* content it had.
C15_RunFailure ==
    [][\A r \in 1..Len(allRuns) :
          (allRuns[r].pc = "await" /\ allRuns'[r].pc = "failed") =>
              LET i == allRuns[r].i
              IN  /\ error'
                  /\ chapters'[i].status = "pending"
                  /\ \A q \in 1..Len(requests') : requests'[q].by # r
                  /\ \A j \in (i + 1)..Len(chapters) :
                        /\ chapters'[j].status = chapters[j].status
                        /\ chapters'[j].content = chapters[j].content]_vars

----------------------------------------------------------------------------
(* Claims about the writing workflow (checked under SpecWrite) *)

\* C17: a malformed response makes the service function reject, so no idea
\* that lacks a field is applied to the form and no chapter is 'done' with
\* empty content.
C17_MalformedRejected ==
    /\ \A k \in 1..Len(ideaCalls) :
          ideaCalls[k].pc = "applied" => ideaCalls[k].response.missing = {}
    /\ \A i \in 1..Len(chapters) :
          chapters[i].status = "done" => chapters[i].content # <<>>

\* C18: at the step an operation fails (idea, table of contents, one cover,
\* both covers, one chapter, a run over all chapters, assemble), every
\* loading flag the operation set is false and an error is shown.
C18_FlagsCleared ==
    [][/\ \A k \in 1..Len(ideaCalls) :
             (ideaCalls[k].pc = "await" /\ ideaCalls'[k].pc = "failed")
                 => (~isRandomizing' /\ error')
       /\ \A k \in 1..Len(tocCalls) :
             (tocCalls[k].pc = "await" /\ tocCalls'[k].pc = "failed")
                 => (~isLoading' /\ error')
       /\ ("front" \in coverCalls \ coverCalls' /\ frontCoverImage' = NoCover)
             => (~isGeneratingFrontCover' /\ error')
       /\ ("back" \in coverCalls \ coverCalls' /\ backCoverImage' = NoCover)
             => (~isGeneratingBackCover' /\ error')
       /\ \A k \in 1..Len(bothCoverCalls) :
             (bothCoverCalls[k].pc = "await" /\ bothCoverCalls'[k].pc = "failed")
                 => (~isGeneratingBothCovers' /\ error')
       /\ \A q \in 1..Len(requests) :
             ( /\ requests[q].by = 0
               /\ requests' = settled(requests, q)
               /\ requests[q].chapter <= Len(chapters')
               /\ chapters'[requests[q].chapter].status = "pending" )
                 => error'
       /\ \A r \in 1..Len(allRuns) :
             (allRuns[r].pc = "await" /\ allRuns'[r].pc = "failed")
                 => (~isLoading' /\ error')
       /\ (assembleCalls # <<>> /\ assembleCalls' = Tail(assembleCalls) /\ clock' = clock)
             => (~isLoading' /\ error')]_vars

\* Both covers failed, later the run over all chapters failed: the error is
\* shown and no loading flag is left set.
C18_Witness ==
    /\ \E k \in 1..Len(bothCoverCalls) : bothCoverCalls[k].pc = "failed"
    /\ \E r \in 1..Len(allRuns) : allRuns[r].pc = "failed"
    /\ error
    /\ ~(isLoading \/ isRandomizing \/ isGeneratingFrontCover
           \/ isGeneratingBackCover \/ isGeneratingBothCovers)

----------------------------------------------------------------------------
(* Claims about the persisted state *)

\* C16 (checked under SpecLoad): when the load effect fails on the stored
\* data, the state after the load is the empty initial state, nothing of
\* the stored data is applied, and the store holds nothing of it either:
\* after localStorage.clear() only the persist effects of the fresh App
\* have written to it.
C16_LoadFailure ==
    [][(~appMounted /\ appMounted' /\ loadEffect(localStorage).threw)
          => /\ bookData' = InitialData
             /\ bookHistory' = <<>>
             /\ localStorage' = persistOnMount(InitialData, <<>>)]_vars

\* C20 (checked under SpecVariant): after every change of the in-progress
\* state the item 'robo-ai-book-progress' is the serialization of the whole
\* current in-progress state, and after every change of the history the item
\* 'robo-ai-book-history' is the serialization of the whole current history.
C20_StoreCurrent ==
    [][/\ bookDataVariant' # bookDataVariant
             => localStorage'.progress = stringify(bookDataVariant')
       /\ bookHistory' # bookHistory
             => localStorage'.history = stringify(bookHistory')]_vars

----------------------------------------------------------------------------
(* Claims about the history (checked under Spec) *)

\* C21: after a successful assemble the new book is the first entry of the
\* history, and a book leaves the history only by handleDeleteFromHistory.
C21_HistoryKept ==
    [][/\ clock' = clock + 1
             => (bookHistory' # <<>> /\ bookHistory'[1].id = clock')
       /\ \A k \in 1..Len(bookHistory) :
             (\A j \in 1..Len(bookHistory') : bookHistory'[j] # bookHistory[k])
                 => /\ clock' = clock
                    /\ \E d \in 1..Len(bookHistory) :
                          bookHistory' = SelectSeq(bookHistory,
                                                   LAMBDA b : b.id # bookHistory[d].id)]_vars

----------------------------------------------------------------------------
(* Further claims about the paginator (checked under SpecPaginate) *)

\* The values currentPos takes in the while loop over a section, the first
\* n turns of it.
RECURSIVE cursorsFrom(_, _, _)
cursorsFrom(sectionContent, currentPos, n) ==
    IF currentPos < Len(sectionContent) /\ n > 0
    THEN <<currentPos>> \o cursorsFrom(sectionContent,
                                      pageEnd(sectionContent, currentPos), n - 1)
    ELSE <<currentPos>>

cursors(sectionContent) == cursorsFrom(sectionContent, 0, Len(sectionContent))

\* C22: in every turn of the splitting loop the cursor strictly increases,
\* so the loop over a section ends after at most as many turns as the
\* section has characters.
C22_CursorIncreases ==
    \A k \in 1..Len(sections(finalBookContent)) :
        LET sectionContent == sections(finalBookContent)[k]
            c == cursors(sectionContent)
        IN  /\ \A i \in 1..(Len(c) - 1) : c[i] < c[i + 1]
            /\ c[Len(c)] >= Len(sectionContent)

\* Paginated: a word longer than the window, cut hard, and a window whose
\* only break character is its first one.
C22_Witness ==
    /\ Paginated
    /\ finalBookContent \in { <<"#", "#", "#", "#", "#", "#", "#", "#">>,
                              <<"#", " ", "#", "#", "#", "#", "#", "#", "#">> }
    /\ Len(TextPages) = 2

\* The 0-based position in the document at which text page k starts: the
\* pages follow one another after the blank first section, if any.
PageStart(k) ==
    (Len(finalBookContent) - Len(WithoutBlankLead(finalBookContent)))
        + Len(flatten(SubSeq(TextPages, 1, k - 1)))

\* C23: every line of the document that begins with "## " is the start of
\* a page, so no text page holds characters of two sections; each page is
\* the slice of the document at its position.
C23_SectionsArePages ==
    (Paginated /\ HasMarker(finalBookContent)) =>
        /\ \A k \in 1..Len(TextPages) :
              TextPages[k] = substring(finalBookContent, PageStart(k),
                                       PageStart(k) + Len(TextPages[k]))
        /\ \A p \in 0..Len(finalBookContent) :
              HeadingAt(finalBookContent, p)
                  => \E k \in 1..Len(TextPages) : PageStart(k) = p

\* A heading line after a first section with text: a page of its own starts
\* at the heading although both fit into one window.
C23_Witness ==
    /\ Paginated
    /\ Len(finalBookContent) <= CHARS_PER_PAGE
    /\ \E p \in 1..Len(finalBookContent) :
          /\ HeadingAt(finalBookContent, p)
          /\ HasText(SubSeq(finalBookContent, 1, p))
    /\ Len(TextPages) >= 2


----------------------------------------------------------------------------
(* Claims about the PDF export (checked under SpecExport) *)

\* The picture of each of the first n pages of the call x, on a PDF page of
\* its own, in the order of the pages
OnePagePerPage(x, n) ==
    [k \in 1..n |-> <<html2canvas(pageElement(x.pages[k]))>>]

\* C24: a PDF export rasterizes the pages one at a time and in order: while
\* page i is being rasterized its element is the only one in the off-screen
\* container and the PDF holds exactly the pictures of the pages before it;
\* a successful export ends with exactly one PDF page per computed page,
\* covers included, in the order of the pages, and saves it.
C24_PdfPages ==
    \A e \in 1..Len(exports) :
        LET x == exports[e]
        IN  x.format = "pdf" =>
              /\ x.pc = "raster" =>
                    /\ x.inBody
                    /\ x.children = <<pageElement(x.pages[x.i + 1])>>
                    /\ x.pdf = IF x.i = 0 THEN jsPDF ELSE OnePagePerPage(x, x.i)
              /\ (x.pc = "done" /\ ~x.threw) =>
                    /\ x.pdf = OnePagePerPage(x, Len(x.pages))
                    /\ Len(DownloadsOf(e)) = 1

\* A PDF export of a book with a front cover and text, saved.
C24_Witness ==
    \E e \in 1..Len(exports) :
        /\ exports[e].format = "pdf"
        /\ exports[e].pc = "done" /\ ~exports[e].threw
        /\ Len(exports[e].pages) >= 2
        /\ rendersAsImage(exports[e].pages[1])
        /\ ~rendersAsImage(exports[e].pages[2])
        /\ Len(exports[e].pdf) = Len(exports[e].pages)
        /\ Len(DownloadsOf(e)) = 1

\* C25: when a PDF export has ended, with its download or with the failure
\* notice, its off-screen container is no longer a child of document.body
\* and no page element is left in it.
C25_ContainerRemoved ==
    \A e \in 1..Len(exports) :
        (exports[e].format = "pdf" /\ exports[e].pc = "done") =>
            /\ ~exports[e].inBody
            /\ exports[e].children = <<>>


----------------------------------------------------------------------------
(* Claims about continuity (checked under SpecContinuity) *)

\* The content of the nearest chapter before chapter i that is completed:
\* status 'done' and content that is not empty; <<>> if there is none.
RECURSIVE NearestCompleted(_, _)
NearestCompleted(chs, i) ==
    IF i <= 1 THEN <<>>
    ELSE IF chs[i - 1].status = "done" /\ chs[i - 1].content # <<>>
         THEN chs[i - 1].content
         ELSE NearestCompleted(chs, i - 1)

\* A step that issues a request: the new request is the last one in flight.
IssuesRequest == Len(requests') >= Len(requests) /\ requests' # requests

\* C26: every request for a chapter, of a single generation or of a
\* generate-all run, carries the content of the nearest preceding completed
\* chapter when continuity is enabled, and no previous content when
\* continuity is disabled or there is no such chapter.
C26_Continuity ==
    [][IssuesRequest =>
          LET q == requests'[Len(requests')]
          IN  q.previous = IF continueFromPrevious
                           THEN NearestCompleted(chapters', q.chapter)
                           ELSE <<>>]_vars


----------------------------------------------------------------------------
(* Claims about the edits of the user (checked under SpecChapters) *)

\* The step settles a request for chapter i: the chapter was generated anew,
\* or its generation failed.
SettlesRequestFor(i) ==
    \E q \in 1..Len(requests) :
        /\ requests[q].chapter = i
        /\ Len(requests') <= Len(requests)
        /\ SubSeq(requests', 1, Len(requests) - 1) = settled(requests, q)

\* C27: a title or a content the user typed into a chapter stays: no step
\* replaces an edited title, and a step replaces an edited content only by
\* settling a generation of that chapter. In particular an edit made while
\* a generate-all run is awaiting is still there when the run has finished.
C27_EditsKept ==
    [][\A i \in 1..Len(chapters) :
          /\ chapters[i].title = EditedTitle
                => (i <= Len(chapters') /\ chapters'[i].title = EditedTitle)
          /\ chapters[i].content = EditedContent
                => \/ i <= Len(chapters') /\ chapters'[i].content = EditedContent
                   \/ SettlesRequestFor(i)]_vars


----------------------------------------------------------------------------
(* Claims about the size of the pages (checked under SpecPaginate) *)

\* The text pages the splitting loop made: all of them, unless the document
\* gave no page and the fallback page stands in, a fixed text of 125
\* characters (below the 2000 of the source; the model's window is scaled
\* down, the fallback text is not).
LoopPages == IF TextPages = <<FALLBACK_PAGE>> THEN <<>> ELSE TextPages

\* C28: every text page is non-empty and at most CHARS_PER_PAGE + 1
\* characters long, and a page has CHARS_PER_PAGE + 1 characters only when
\* the character at the limit of its window, its last one, is a space or a
\* newline.
C28_PageSize ==
    Paginated =>
        \A k \in 1..Len(LoopPages) :
            LET page == LoopPages[k]
            IN  /\ Len(page) >= 1
                /\ Len(page) <= CHARS_PER_PAGE + 1
                /\ Len(page) = CHARS_PER_PAGE + 1 => IsBreak(page[CHARS_PER_PAGE + 1])

\* Paginated: a page of CHARS_PER_PAGE + 1 characters whose only break
\* character is the space at the limit of its window, and a page after it.
C28_Witness ==
    /\ Paginated
    /\ \E k \in 1..Len(LoopPages) :
          /\ Len(LoopPages[k]) = CHARS_PER_PAGE + 1
          /\ LoopPages[k][CHARS_PER_PAGE + 1] = " "
          /\ \A i \in 1..CHARS_PER_PAGE : ~IsBreak(LoopPages[k][i])
    /\ Len(LoopPages) >= 2


----------------------------------------------------------------------------
(* Claims about 'New Book' (checked under SpecWrite) *)

\* The step is the settling of a chapter request that was in flight, not
\* an operation of the user.
RequestSettles ==
    \E q \in 1..Len(requests) :
        /\ Len(requests') <= Len(requests)
        /\ SubSeq(requests', 1, Len(requests) - 1) = settled(requests, q)

\* C29: once 'New Book' has emptied the chapter list and set isLoading to
\* false, the settling of a chapter request that was in flight, of a
\* generate-all run or of a single generation, leaves the list empty and
\* isLoading false. (Requests are in flight over an empty list only after
\* 'New Book'.)
C29_ClearedStays ==
    [][(chapters = <<>> /\ ~isLoading /\ RequestSettles)
          => (chapters' = <<>> /\ ~isLoading')]_vars


----------------------------------------------------------------------------
(* Claims about the status of the chapters (checked under SpecChapters) *)

\* C30: whenever no chapter-generation request is in flight, no chapter has
\* the status 'generating'.
C30_NoOrphanGenerating ==
    requests = <<>> =>
        \A i \in 1..Len(chapters) : chapters[i].status # "generating"

====
